---- MODULE Spec2Model ----
(***************************************************************************)
(* A model of md_spreadsheet_parser: the row tokenizer, the separator-row  *)
(* detector, the table parser, the generator and the workbook splitter.    *)
(*                                                                         *)
(* A Python str is a sequence of one-character strings.  An optional value *)
(* (x | None) is a sequence of length at most one: None is << >> and a     *)
(* present value x is << x >>.                                             *)
(***************************************************************************)
EXTENDS Integers, Sequences, FiniteSets, TLC

VARIABLES
    pc,                \* position of the running operation
    schema,            \* the ParsingSchema / MultiTableParsingSchema in use
    markdown,          \* parse_table: the text argument
    lines,             \* parse_table: markdown.strip().split("\n")
    idx,               \* parse_table: number of lines already consumed by the loop
    headers,           \* parse_table: headers (optional row)
    rows,              \* parse_table: rows
    potential_header,  \* parse_table: potential_header (optional row)
    result,            \* parse_table: the returned Table (optional)
    table,             \* generate_table_markdown: the Table argument (optional)
    regenerated,       \* generate_table_markdown of the parsed Table (optional)
    given_workbook,    \* generate_workbook_markdown: the Workbook argument (optional)
    line,              \* parse_row: the line argument
    cells,             \* parse_row: the returned row (optional)
    wb_lines,          \* parse_workbook: lines
    wb_pos,            \* parse_workbook: index of the next line of lines to scan
    current_sheet_name,  \* parse_workbook: current_sheet_name (optional)
    current_sheet_lines, \* parse_workbook: current_sheet_lines
    sheets,            \* parse_workbook: sheets
    workbook,          \* parse_workbook: the returned Workbook (optional)
    sheet_name,        \* parse_sheet: the name argument
    tables,            \* scan_tables(markdown, schema): the returned Tables (optional)
    default_tables,    \* scan_tables(markdown): the returned Tables (optional)
    parsed_sheet,      \* parse_sheet: the returned Sheet (optional)
    schema_cls,        \* validate_table: the fields of the dataclass schema_cls
    conversion_schema, \* validate_table: the ConversionSchema argument
    row_idx,           \* validate_table: number of rows already processed
    results,           \* validate_table: results
    errors,            \* validate_table: errors
    outcome            \* validate_table: what the call returned or raised (optional)

vars == << pc, schema, markdown, lines, idx, headers, rows, potential_header,
           result, table, regenerated, given_workbook, line, cells, wb_lines,
           wb_pos,
           current_sheet_name, current_sheet_lines, sheets, workbook,
           sheet_name, tables, default_tables, parsed_sheet,
           schema_cls, conversion_schema, row_idx, results, errors, outcome >>

parseVars == << markdown, lines, idx, headers, rows, potential_header, result >>
genVars == << table, regenerated, given_workbook >>
rowVars == << line, cells >>
wbVars == << wb_lines, wb_pos, current_sheet_name, current_sheet_lines,
             sheets, workbook >>
scanVars == << sheet_name, tables, default_tables, parsed_sheet >>
valVars == << schema_cls, conversion_schema, row_idx, results, errors, outcome >>

----------------------------------------------------------------------------
(* Characters and optional values *)

PIPE == "|"
DASH == "-"
COLON == ":"
BS == "\\"
NL == "\n"
SP == " "
HASH == "#"

None == << >>
Some(x) == << x >>
IsNone(o) == o = << >>
IsSome(o) == o # << >>
Get(o) == o[1]

----------------------------------------------------------------------------
(* Python str operations *)

IsSpace(c) == c \in {SP, NL}

RECURSIVE LStrip(_)
LStrip(s) ==
    IF s = << >> THEN << >>
    ELSE IF IsSpace(Head(s)) THEN LStrip(Tail(s)) ELSE s

RECURSIVE RStrip(_)
RStrip(s) ==
    IF s = << >> THEN << >>
    ELSE IF IsSpace(s[Len(s)]) THEN RStrip(SubSeq(s, 1, Len(s) - 1)) ELSE s

\* str.strip()
Strip(s) == RStrip(LStrip(s))

\* c in s, for a one-character c
Contains(s, c) == \E i \in 1..Len(s) : s[i] = c

\* s.startswith(p)
StartsWith(s, p) == Len(s) >= Len(p) /\ SubSeq(s, 1, Len(p)) = p

\* s.replace(c, "") for a one-character c
RECURSIVE RemoveChar(_, _)
RemoveChar(s, c) ==
    IF s = << >> THEN << >>
    ELSE IF Head(s) = c THEN RemoveChar(Tail(s), c)
         ELSE << Head(s) >> \o RemoveChar(Tail(s), c)

\* s.split(c) for a one-character c: never empty, "".split(c) is [""]
Split(s, c) ==
    LET at == { i \in 1..Len(s) : s[i] = c }
        n == Cardinality(at)
        \* the position of the k-th c, between 0 and Len(s) + 1
        pos(k) == IF k = 0 THEN 0
                  ELSE IF k = n + 1 THEN Len(s) + 1
                  ELSE CHOOSE i \in at : Cardinality({ j \in at : j < i }) = k - 1
    IN  [k \in 1..(n + 1) |-> SubSeq(s, pos(k - 1) + 1, pos(k) - 1)]

\* d.join(parts)
RECURSIVE Join(_, _)
Join(parts, d) ==
    IF parts = << >> THEN << >>
    ELSE IF Len(parts) = 1 THEN parts[1]
         ELSE parts[1] \o d \o Join(Tail(parts), d)

\* c * n
RECURSIVE Repeat(_, _)
Repeat(c, n) == IF n <= 0 THEN << >> ELSE << c >> \o Repeat(c, n - 1)

----------------------------------------------------------------------------
(* Row Tokenizer: core.py clean_cell, parse_row *)

\* cell.replace("\\" + sep, sep): left to right, non-overlapping
RECURSIVE ReplaceEscaped(_, _)
ReplaceEscaped(cell, sep) ==
    IF Len(cell) < 2 THEN cell
    ELSE IF cell[1] = BS /\ cell[2] = sep
         THEN << sep >> \o ReplaceEscaped(SubSeq(cell, 3, Len(cell)), sep)
         ELSE << cell[1] >> \o ReplaceEscaped(Tail(cell), sep)

\* clean_cell without the strip (lines 12-13 left out)
clean_cell_unstripped(cell, s) ==
    IF Contains(cell, BS)
    THEN ReplaceEscaped(cell, s.column_separator)
    ELSE cell

clean_cell(cell, s) ==
    LET stripped == IF s.strip_whitespace THEN Strip(cell) ELSE cell
    IN  IF Contains(stripped, BS)
        THEN ReplaceEscaped(stripped, s.column_separator)
        ELSE stripped

\* a split at every separator, escaped or not (the lookbehind left out)
RECURSIVE ReSplitEverySep(_, _, _, _)
ReSplitEverySep(rest, sep, prev, cur) ==
    IF rest = << >> THEN << cur >>
    ELSE IF Head(rest) = sep
         THEN << cur >> \o ReSplitEverySep(Tail(rest), sep, prev, << >>)
         ELSE ReSplitEverySep(Tail(rest), sep, prev, Append(cur, Head(rest)))

\* re.split("(?<!\\\\)" + re.escape(sep), line): prev is the character before
\* the head of rest in the line (<< >> at the start of the line)
RECURSIVE ReSplitFrom(_, _, _, _)
ReSplitFrom(rest, sep, prev, cur) ==
    IF rest = << >> THEN << cur >>
    ELSE IF Head(rest) = sep /\ prev # << BS >>
         THEN << cur >> \o ReSplitFrom(Tail(rest), sep, << Head(rest) >>, << >>)
         ELSE ReSplitFrom(Tail(rest), sep, << Head(rest) >>,
                          Append(cur, Head(rest)))

ReSplit(l, sep) == ReSplitFrom(l, sep, << >>, << >>)

\* the "outer pipes" step left out (lines 44-48)
KeepOuter(parts) == parts

\* the "outer pipes" step of parse_row
DropOuter(parts) ==
    IF Len(parts) > 1
    THEN LET p1 == IF Strip(parts[1]) = << >> THEN Tail(parts) ELSE parts
         IN  IF p1 # << >> /\ Strip(p1[Len(p1)]) = << >>
             THEN SubSeq(p1, 1, Len(p1) - 1)
             ELSE p1
    ELSE parts

\* parse_row: None for a blank line, otherwise the cleaned cells
parse_row(l, s) ==
    LET stripped == Strip(l)
    IN  IF stripped = << >> THEN None
        ELSE LET parts == DropOuter(ReSplit(stripped, s.column_separator))
             IN  Some([i \in 1..Len(parts) |-> clean_cell(parts[i], s)])

----------------------------------------------------------------------------
(* Separator-Row Detector: core.py is_separator_row *)

is_separator_row(row, s) ==
    \A i \in 1..Len(row) :
        /\ Strip(RemoveChar(RemoveChar(row[i], s.header_separator_char),
                            COLON)) = << >>
        /\ Contains(row[i], s.header_separator_char)

----------------------------------------------------------------------------
(* Table Parser: core.py parse_table *)

\* the loop's variables before the first line
ParseStart == [headers |-> None, rows |-> << >>, potential_header |-> None]

\* one iteration that forgets the buffered row instead of appending it
ParseStepDropBuffered(st, l, s) ==
    LET parsed_row == parse_row(Strip(l), s)
    IN  IF IsNone(parsed_row) THEN st
        ELSE IF IsNone(st.headers) /\ IsSome(st.potential_header)
        THEN IF is_separator_row(Get(parsed_row), s)
             THEN [st EXCEPT !.headers = st.potential_header,
                             !.potential_header = None]
             ELSE [st EXCEPT !.potential_header = parsed_row]
        ELSE IF IsNone(st.headers) /\ IsNone(st.potential_header)
        THEN [st EXCEPT !.potential_header = parsed_row]
        ELSE [st EXCEPT !.rows = Append(st.rows, Get(parsed_row))]

\* one iteration of the loop over lines
ParseStep(st, l, s) ==
    LET parsed_row == parse_row(Strip(l), s)
    IN  IF IsNone(parsed_row) THEN st
        ELSE IF IsNone(st.headers) /\ IsSome(st.potential_header)
        THEN IF is_separator_row(Get(parsed_row), s)
             THEN [st EXCEPT !.headers = st.potential_header,
                             !.potential_header = None]
             ELSE [st EXCEPT !.rows = Append(st.rows, Get(st.potential_header)),
                             !.potential_header = parsed_row]
        ELSE IF IsNone(st.headers) /\ IsNone(st.potential_header)
        THEN [st EXCEPT !.potential_header = parsed_row]
        ELSE [st EXCEPT !.rows = Append(st.rows, Get(parsed_row))]

\* pad with empty strings or truncate to header_len
NormalizeRow(row, header_len) ==
    IF Len(row) < header_len
    THEN row \o [i \in 1..(header_len - Len(row)) |-> << >>]
    ELSE IF Len(row) > header_len THEN SubSeq(row, 1, header_len)
    ELSE row

\* "if headers:" is false for None and for the empty list
HeadersTruthy(h) == IsSome(h) /\ Get(h) # << >>

\* ParseFinish without the flush of the buffered row (lines 116-117 left out)
ParseFinishNoFlush(st, s) ==
    LET normalized == IF HeadersTruthy(st.headers)
                      THEN [i \in 1..Len(st.rows) |->
                               NormalizeRow(st.rows[i], Len(Get(st.headers)))]
                      ELSE st.rows
    IN  [headers |-> st.headers, rows |-> normalized,
         name |-> None, description |-> None,
         metadata |-> [schema_used |-> s]]

\* the code after the loop: flush the buffered row, normalize, build the Table
ParseFinish(st, s) ==
    LET flushed == IF IsSome(st.potential_header)
                   THEN Append(st.rows, Get(st.potential_header))
                   ELSE st.rows
        normalized == IF HeadersTruthy(st.headers)
                      THEN [i \in 1..Len(flushed) |->
                               NormalizeRow(flushed[i], Len(Get(st.headers)))]
                      ELSE flushed
    IN  [headers |-> st.headers, rows |-> normalized,
         name |-> None, description |-> None,
         metadata |-> [schema_used |-> s]]

RECURSIVE ParseLoop(_, _, _)
ParseLoop(st, ls, s) ==
    IF ls = << >> THEN st
    ELSE ParseLoop(ParseStep(st, Head(ls), s), Tail(ls), s)

\* parse_table as a function of its arguments
parse_table(md, s) ==
    ParseFinish(ParseLoop(ParseStart, Split(Strip(md), NL), s), s)

\* parse_table, statement by statement
ParseTableEnter ==
    /\ pc = "parse_table"
    /\ lines' = Split(Strip(markdown), NL)
    /\ idx' = 0
    /\ headers' = ParseStart.headers
    /\ rows' = ParseStart.rows
    /\ potential_header' = ParseStart.potential_header
    /\ pc' = "parse_table_loop"
    /\ UNCHANGED << schema, markdown, result, genVars, rowVars, wbVars,
                    scanVars, valVars >>

\* an iteration that raises on a row whose length is not the header's
ParseTableLineRejecting ==
    /\ pc = "parse_table_loop"
    /\ idx < Len(lines)
    /\ LET parsed_row == parse_row(Strip(lines[idx + 1]), schema)
           st == ParseStep([headers |-> headers, rows |-> rows,
                            potential_header |-> potential_header],
                           lines[idx + 1], schema)
       IN  IF /\ HeadersTruthy(headers) /\ IsSome(parsed_row)
              /\ Len(Get(parsed_row)) # Len(Get(headers))
           THEN /\ pc' = "raised"
                /\ UNCHANGED << headers, rows, potential_header >>
           ELSE /\ pc' = pc
                /\ headers' = st.headers
                /\ rows' = st.rows
                /\ potential_header' = st.potential_header
    /\ idx' = idx + 1
    /\ UNCHANGED << schema, markdown, lines, result, genVars, rowVars,
                    wbVars, scanVars, valVars >>

ParseTableLine ==
    /\ pc = "parse_table_loop"
    /\ idx < Len(lines)
    /\ LET st == ParseStep([headers |-> headers, rows |-> rows,
                            potential_header |-> potential_header],
                           lines[idx + 1], schema)
       IN  /\ headers' = st.headers
           /\ rows' = st.rows
           /\ potential_header' = st.potential_header
    /\ idx' = idx + 1
    /\ UNCHANGED << pc, schema, markdown, lines, result, genVars, rowVars, wbVars,
                    scanVars, valVars >>

ParseTableReturn ==
    /\ pc = "parse_table_loop"
    /\ idx = Len(lines)
    /\ result' = Some(ParseFinish([headers |-> headers, rows |-> rows,
                                   potential_header |-> potential_header],
                                  schema))
    /\ pc' = "parsed"
    /\ UNCHANGED << schema, markdown, lines, idx, headers, rows,
                    potential_header, genVars, rowVars, wbVars,
                    scanVars, valVars >>

----------------------------------------------------------------------------
(* Schemas: schemas.py ParsingSchema, MultiTableParsingSchema *)

ParsingSchema(sep, hdr, outer, strip) ==
    [column_separator |-> sep, header_separator_char |-> hdr,
     require_outer_pipes |-> outer, strip_whitespace |-> strip,
     multi |-> FALSE, root_marker |-> << >>, sheet_header_level |-> 0,
     table_header_level |-> None, capture_description |-> FALSE]

DEFAULT_SCHEMA == ParsingSchema(PIPE, DASH, FALSE, TRUE)

----------------------------------------------------------------------------
(* parse_table on bounded texts *)

MaxLines == 3

\* the lines a text is made of
TableTextLines ==
    { << >>,
      << "a" >>,
      << "a", PIPE, "b" >>,
      << PIPE, SP, "a", SP, PIPE >>,
      << DASH >>,
      << COLON, DASH, PIPE, DASH >>,
      << PIPE >>,
      << "a", BS, PIPE, "b", PIPE, "c", PIPE, "a" >> }

SeqsUpTo(S, n) == UNION { [1..k -> S] : k \in 0..n }

Texts == { Join(ls, << NL >>) : ls \in SeqsUpTo(TableTextLines, MaxLines) }

ParseSchemas ==
    { ParsingSchema(PIPE, DASH, FALSE, strip) : strip \in BOOLEAN }

ScanIdle ==
    /\ sheet_name = << >> /\ tables = None
    /\ default_tables = None /\ parsed_sheet = None

ValidateIdle ==
    /\ schema_cls = << >> /\ conversion_schema = << >>
    /\ row_idx = 0 /\ results = << >> /\ errors = << >>
    /\ outcome = None

Idle ==
    /\ ScanIdle /\ ValidateIdle
    /\ table = None /\ regenerated = None /\ given_workbook = None
    /\ line = << >> /\ cells = None
    /\ wb_lines = << >> /\ wb_pos = 0
    /\ current_sheet_name = None /\ current_sheet_lines = << >>
    /\ sheets = << >> /\ workbook = None

Init ==
    /\ pc = "parse_table"
    /\ schema \in ParseSchemas
    /\ markdown \in Texts
    /\ lines = << >> /\ idx = 0
    /\ headers = None /\ rows = << >> /\ potential_header = None
    /\ result = None
    /\ Idle

Next == ParseTableEnter \/ ParseTableLine \/ ParseTableReturn

Spec == Init /\ [][Next]_vars

----------------------------------------------------------------------------
(* Generator: generator.py generate_table_markdown *)

\* truth value of an optional str or list: false for None and for the empty one
Truthy(o) == IsSome(o) /\ Get(o) # << >>

\* sep.join(row), wrapped in outer separators when require_outer_pipes
RenderRow(row, s) ==
    LET sep == << SP, s.column_separator, SP >>
        joined == Join(row, sep)
    IN  IF s.require_outer_pipes
        THEN << s.column_separator, SP >> \o joined \o << SP, s.column_separator >>
        ELSE joined

\* the rendering that emits the description whatever capture_description is
generate_table_markdown_always_description(t, s) ==
    LET name_lines ==
            IF s.multi /\ Truthy(t.name) /\ IsSome(s.table_header_level)
            THEN << Repeat(HASH, Get(s.table_header_level)) \o << SP >>
                    \o Get(t.name) >>
            ELSE << >>
        description_lines ==
            IF s.multi /\ Truthy(t.description)
            THEN << Get(t.description), << >> >>
            ELSE << >>
        header_lines ==
            IF Truthy(t.headers)
            THEN << RenderRow(Get(t.headers), s),
                    RenderRow([i \in 1..Len(Get(t.headers)) |->
                                  Repeat(s.header_separator_char, 3)], s) >>
            ELSE << >>
        row_lines == [i \in 1..Len(t.rows) |-> RenderRow(t.rows[i], s)]
    IN  Join(name_lines \o description_lines \o header_lines \o row_lines,
             << NL >>)

generate_table_markdown(t, s) ==
    LET name_lines ==
            IF s.multi /\ Truthy(t.name) /\ IsSome(s.table_header_level)
            THEN << Repeat(HASH, Get(s.table_header_level)) \o << SP >>
                    \o Get(t.name) >>
            ELSE << >>
        description_lines ==
            IF s.multi /\ Truthy(t.description) /\ s.capture_description
            THEN << Get(t.description), << >> >>
            ELSE << >>
        header_lines ==
            IF Truthy(t.headers)
            THEN << RenderRow(Get(t.headers), s),
                    RenderRow([i \in 1..Len(Get(t.headers)) |->
                                  Repeat(s.header_separator_char, 3)], s) >>
            ELSE << >>
        row_lines == [i \in 1..Len(t.rows) |-> RenderRow(t.rows[i], s)]
    IN  Join(name_lines \o description_lines \o header_lines \o row_lines,
             << NL >>)

\* a Table as the caller constructs it
Table(h, rs) ==
    [headers |-> h, rows |-> rs, name |-> None, description |-> None,
     metadata |-> << >>]

----------------------------------------------------------------------------
(* generate_table_markdown, parse_table, generate_table_markdown on bounded *)
(* Tables                                                                   *)

MaxCols == 2
MaxRows == 1

\* every Table has the cell "a" and at most one other cell value
OtherCells ==
    { << DASH >>, << >>, << SP, "a" >>, << "a", PIPE, "a" >> }

RowValues(other) == SeqsUpTo({ << "a" >>, other }, MaxCols)

Tables ==
    UNION { { Table(h, rs) :
                h \in {None} \cup { Some(r) : r \in RowValues(other) },
                rs \in SeqsUpTo(RowValues(other), MaxRows) } :
            other \in OtherCells }

GenSchemas ==
    { ParsingSchema(PIPE, DASH, outer, strip) :
          outer \in BOOLEAN, strip \in BOOLEAN }

InitRT ==
    /\ pc = "generate"
    /\ schema \in GenSchemas
    /\ table \in { Some(t) : t \in Tables }
    /\ regenerated = None /\ given_workbook = None
    /\ markdown = << >> /\ lines = << >> /\ idx = 0
    /\ headers = None /\ rows = << >> /\ potential_header = None
    /\ result = None
    /\ line = << >> /\ cells = None
    /\ wb_lines = << >> /\ wb_pos = 0
    /\ current_sheet_name = None /\ current_sheet_lines = << >>
    /\ sheets = << >> /\ workbook = None
    /\ ScanIdle /\ ValidateIdle

\* m = generate_table_markdown(t, s)
Generate ==
    /\ pc = "generate"
    /\ markdown' = generate_table_markdown(Get(table), schema)
    /\ pc' = "generated"
    /\ UNCHANGED << schema, lines, idx, headers, rows, potential_header,
                    result, genVars, rowVars, wbVars,
                    scanVars, valVars >>

\* parse_table(m, s)
ParseGenerated ==
    /\ pc = "generated"
    /\ result' = Some(parse_table(markdown, schema))
    /\ pc' = "reparsed"
    /\ UNCHANGED << schema, markdown, lines, idx, headers, rows,
                    potential_header, genVars, rowVars, wbVars,
                    scanVars, valVars >>

\* generate_table_markdown(parse_table(m, s), s)
Regenerate ==
    /\ pc = "reparsed"
    /\ regenerated' = Some(generate_table_markdown(Get(result), schema))
    /\ pc' = "regenerated"
    /\ UNCHANGED << schema, table, given_workbook, parseVars, rowVars, wbVars,
                    scanVars, valVars >>

NextRT == Generate \/ ParseGenerated \/ Regenerate

SpecRT == InitRT /\ [][NextRT]_vars

----------------------------------------------------------------------------
(* parse_row on bounded lines *)

MaxLineLen == 5

LineChars == { PIPE, BS, SP, "a" }

RowLines == SeqsUpTo(LineChars, MaxLineLen)

InitRow ==
    /\ pc = "parse_row"
    /\ schema \in ParseSchemas
    /\ line \in RowLines
    /\ cells = None
    /\ markdown = << >> /\ lines = << >> /\ idx = 0
    /\ headers = None /\ rows = << >> /\ potential_header = None
    /\ result = None
    /\ table = None /\ regenerated = None /\ given_workbook = None
    /\ wb_lines = << >> /\ wb_pos = 0
    /\ current_sheet_name = None /\ current_sheet_lines = << >>
    /\ sheets = << >> /\ workbook = None
    /\ ScanIdle /\ ValidateIdle

ParseRowCall ==
    /\ pc = "parse_row"
    /\ cells' = parse_row(line, schema)
    /\ pc' = "row_done"
    /\ UNCHANGED << schema, line, parseVars, genVars, wbVars,
                    scanVars, valVars >>

NextRow == ParseRowCall

SpecRow == InitRow /\ [][NextRow]_vars

----------------------------------------------------------------------------
(* Multi-Table Extractor: core.py _extract_tables, parse_sheet *)

MultiTableParsingSchema(sep, hdr, outer, strip, root, sheet, tbl, capture) ==
    [column_separator |-> sep, header_separator_char |-> hdr,
     require_outer_pipes |-> outer, strip_whitespace |-> strip,
     multi |-> TRUE, root_marker |-> root, sheet_header_level |-> sheet,
     table_header_level |-> tbl, capture_description |-> capture]

\* "#" * level + " "
HeaderPrefix(level) == Repeat(HASH, level) \o << SP >>

\* text.split("\n\n"): left to right, non-overlapping; cur is what the
\* first piece already holds.  A match starts at i when i and i + 1 hold
\* line breaks and an even number of line breaks precede i in its run.
SplitBlocksFrom(text, cur) ==
    LET isNL(i) == i \in 1..Len(text) /\ text[i] = NL
        runStart(i) == CHOOSE j \in 1..i :
                           /\ \A k \in j..i : isNL(k)
                           /\ ~isNL(j - 1)
        at == { i \in 1..Len(text) :
                  /\ isNL(i) /\ isNL(i + 1)
                  /\ (i - runStart(i)) % 2 = 0 }
        n == Cardinality(at)
        start(k) == IF k = n + 1 THEN Len(text) + 1
                    ELSE CHOOSE i \in at : Cardinality({ j \in at : j < i }) = k - 1
        after(k) == IF k = 0 THEN 1 ELSE start(k) + 2
    IN  [k \in 1..(n + 1) |->
            (IF k = 1 THEN cur ELSE << >>)
            \o SubSeq(text, after(k - 1), start(k) - 1)]

\* the else branch without the separator check (line 203 left out)
RECURSIVE ExtractBlocksAnyChunk(_, _)
ExtractBlocksAnyChunk(blocks, s) ==
    IF blocks = << >> THEN << >>
    ELSE LET block == Head(blocks)
             t == parse_table(block, s)
             found == IF Strip(block) # << >>
                         /\ (t.rows # << >> \/ Truthy(t.headers))
                      THEN << t >> ELSE << >>
         IN  found \o ExtractBlocksAnyChunk(Tail(blocks), s)

\* the else branch of _extract_tables (table_header_level is None)
RECURSIVE ExtractBlocks(_, _)
ExtractBlocks(blocks, s) ==
    IF blocks = << >> THEN << >>
    ELSE LET block == Head(blocks)
             t == parse_table(block, s)
             found == IF Strip(block) # << >>
                         /\ Contains(block, s.column_separator)
                         /\ (t.rows # << >> \/ Truthy(t.headers))
                      THEN << t >> ELSE << >>
         IN  found \o ExtractBlocks(Tail(blocks), s)

\* process_table_block that parses the whole block, description lines included
ProcessTableBlockWholeBlock(name, block_lines, s) ==
    LET starts == { i \in 1..Len(block_lines) :
                      Contains(block_lines[i], s.column_separator) }
    IN  IF Truthy(name) /\ block_lines # << >> /\ starts # {}
        THEN LET t == parse_table(Join(block_lines, << NL >>), s)
             IN  << [t EXCEPT !.name = name, !.description = None] >>
        ELSE << >>

\* process_table_block: the Tables (none or one) of the block collected so far
ProcessTableBlock(name, block_lines, s) ==
    LET starts == { i \in 1..Len(block_lines) :
                      Contains(block_lines[i], s.column_separator) }
    IN  IF Truthy(name) /\ block_lines # << >> /\ starts # {}
        THEN LET table_start_idx == CHOOSE i \in starts :
                                        \A j \in starts : i <= j
                 desc_lines == SubSeq(block_lines, 1, table_start_idx - 1)
                 kept == SelectSeq([i \in 1..Len(desc_lines) |->
                                       Strip(desc_lines[i])],
                                   LAMBDA l : l # << >>)
                 joined == Join(kept, << NL >>)
                 description == IF s.capture_description /\ joined # << >>
                                THEN Some(joined) ELSE None
                 table_content ==
                     Join(SubSeq(block_lines, table_start_idx,
                                 Len(block_lines)), << NL >>)
                 t == parse_table(table_content, s)
             IN  << [t EXCEPT !.name = name, !.description = description] >>
        ELSE << >>

\* the loop of the if branch of _extract_tables, then the last block
RECURSIVE ExtractSections(_, _, _, _)
ExtractSections(ls, name, block_lines, s) ==
    IF ls = << >> THEN ProcessTableBlock(name, block_lines, s)
    ELSE LET stripped == Strip(Head(ls))
             header_prefix == HeaderPrefix(Get(s.table_header_level))
         IN  IF StartsWith(stripped, header_prefix)
             THEN ProcessTableBlock(name, block_lines, s)
                  \o ExtractSections(Tail(ls),
                        Some(Strip(SubSeq(stripped, Len(header_prefix) + 1,
                                          Len(stripped)))),
                        << >>, s)
             ELSE ExtractSections(Tail(ls), name,
                                  IF IsSome(name)
                                  THEN Append(block_lines, Head(ls))
                                  ELSE block_lines, s)

extract_tables(text, s) ==
    IF IsSome(s.table_header_level)
    THEN ExtractSections(Split(text, NL), None, << >>, s)
    ELSE ExtractBlocks(SplitBlocksFrom(text, << >>), s)

parse_sheet(md, name, s) == [name |-> name, tables |-> extract_tables(md, s)]

----------------------------------------------------------------------------
(* Sheet / Workbook Splitter: core.py parse_workbook *)

\* the number of leading "#" characters
RECURSIVE HeaderLevel(_)
HeaderLevel(stripped) ==
    IF stripped # << >> /\ Head(stripped) = HASH
    THEN 1 + HeaderLevel(Tail(stripped))
    ELSE 0

\* the positions of the lines that are the root marker
RootMarkerLines(ls, s) ==
    { i \in 1..Len(ls) : Strip(ls[i]) = s.root_marker }

\* the root marker search with lines 239-240 left out: a missing marker scans
\* the whole text
ScanFromNoEarlyReturn(ls, s) ==
    IF s.root_marker = << >> \/ RootMarkerLines(ls, s) = {} THEN Some(1)
    ELSE Some(1 + (CHOOSE i \in RootMarkerLines(ls, s) :
                       \A j \in RootMarkerLines(ls, s) : i <= j))

\* start_index (here the 1-based position of the first line to scan)
ScanFrom(ls, s) ==
    IF s.root_marker = << >> THEN Some(1)
    ELSE IF RootMarkerLines(ls, s) = {} THEN None
    ELSE Some(1 + (CHOOSE i \in RootMarkerLines(ls, s) :
                       \A j \in RootMarkerLines(ls, s) : i <= j))

\* the loop's variables before the first scanned line
WorkbookStart ==
    [current_sheet_name |-> None, current_sheet_lines |-> << >>,
     sheets |-> << >>, stopped |-> FALSE]

\* the sheet being collected, parsed (lines 267-269 and 277-279)
FlushSheet(st, s) ==
    IF Truthy(st.current_sheet_name)
    THEN Append(st.sheets,
                parse_sheet(Join(st.current_sheet_lines, << NL >>),
                            Get(st.current_sheet_name), s))
    ELSE st.sheets

\* one iteration of the loop without the level check and its break
WorkbookStepNoBreak(st, l, s) ==
    LET stripped == Strip(l)
        header_prefix == HeaderPrefix(s.sheet_header_level)
    IN  IF StartsWith(stripped, header_prefix)
        THEN [st EXCEPT !.sheets = FlushSheet(st, s),
                        !.current_sheet_name =
                            Some(Strip(SubSeq(stripped, Len(header_prefix) + 1,
                                              Len(stripped)))),
                        !.current_sheet_lines = << >>]
        ELSE IF Truthy(st.current_sheet_name)
        THEN [st EXCEPT !.current_sheet_lines = Append(@, l)]
        ELSE st

\* one iteration that keeps the lines of the sheet before (line 272 left out)
WorkbookStepKeepLines(st, l, s) ==
    LET stripped == Strip(l)
        header_prefix == HeaderPrefix(s.sheet_header_level)
    IN  IF StartsWith(stripped, << HASH >>)
           /\ HeaderLevel(stripped) < s.sheet_header_level
        THEN [st EXCEPT !.stopped = TRUE]
        ELSE IF StartsWith(stripped, header_prefix)
        THEN [st EXCEPT !.sheets = FlushSheet(st, s),
                        !.current_sheet_name =
                            Some(Strip(SubSeq(stripped, Len(header_prefix) + 1,
                                              Len(stripped))))]
        ELSE IF Truthy(st.current_sheet_name)
        THEN [st EXCEPT !.current_sheet_lines = Append(@, l)]
        ELSE st

\* one iteration of the loop over lines[start_index:]; stopped is the break
WorkbookStep(st, l, s) ==
    LET stripped == Strip(l)
        header_prefix == HeaderPrefix(s.sheet_header_level)
    IN  IF StartsWith(stripped, << HASH >>)
           /\ HeaderLevel(stripped) < s.sheet_header_level
        THEN [st EXCEPT !.stopped = TRUE]
        ELSE IF StartsWith(stripped, header_prefix)
        THEN [st EXCEPT !.sheets = FlushSheet(st, s),
                        !.current_sheet_name =
                            Some(Strip(SubSeq(stripped, Len(header_prefix) + 1,
                                              Len(stripped)))),
                        !.current_sheet_lines = << >>]
        ELSE IF Truthy(st.current_sheet_name)
        THEN [st EXCEPT !.current_sheet_lines = Append(@, l)]
        ELSE st

RECURSIVE WorkbookLoop(_, _, _)
WorkbookLoop(st, ls, s) ==
    IF ls = << >> \/ st.stopped THEN st
    ELSE WorkbookLoop(WorkbookStep(st, Head(ls), s), Tail(ls), s)

\* parse_workbook as a function of its arguments
parse_workbook(md, s) ==
    LET ls == Split(md, NL)
        from == ScanFrom(ls, s)
    IN  IF IsNone(from) THEN [sheets |-> << >>]
        ELSE [sheets |->
                 FlushSheet(WorkbookLoop(WorkbookStart,
                                         SubSeq(ls, Get(from), Len(ls)), s),
                            s)]

\* parse_workbook, statement by statement
WorkbookEnter ==
    /\ pc = "parse_workbook"
    /\ wb_lines' = Split(markdown, NL)
    /\ LET from == ScanFrom(wb_lines', schema)
       IN  IF IsNone(from)
           THEN /\ workbook' = Some([sheets |-> << >>])
                /\ wb_pos' = 0
                /\ pc' = "workbook_done"
           ELSE /\ workbook' = None
                /\ wb_pos' = Get(from)
                /\ pc' = "workbook_loop"
    /\ current_sheet_name' = WorkbookStart.current_sheet_name
    /\ current_sheet_lines' = WorkbookStart.current_sheet_lines
    /\ sheets' = WorkbookStart.sheets
    /\ UNCHANGED << schema, parseVars, genVars, rowVars,
                    scanVars, valVars >>

WorkbookState ==
    [current_sheet_name |-> current_sheet_name,
     current_sheet_lines |-> current_sheet_lines,
     sheets |-> sheets, stopped |-> FALSE]

\* an iteration that does not break
WorkbookLine ==
    /\ pc = "workbook_loop"
    /\ wb_pos <= Len(wb_lines)
    /\ LET st == WorkbookStep(WorkbookState, wb_lines[wb_pos], schema)
       IN  /\ ~st.stopped
           /\ current_sheet_name' = st.current_sheet_name
           /\ current_sheet_lines' = st.current_sheet_lines
           /\ sheets' = st.sheets
    /\ wb_pos' = wb_pos + 1
    /\ UNCHANGED << pc, schema, wb_lines, workbook, parseVars, genVars, rowVars,
                    scanVars, valVars >>

\* the iteration that breaks
WorkbookBreak ==
    /\ pc = "workbook_loop"
    /\ wb_pos <= Len(wb_lines)
    /\ WorkbookStep(WorkbookState, wb_lines[wb_pos], schema).stopped
    /\ pc' = "workbook_flush"
    /\ UNCHANGED << schema, wbVars, parseVars, genVars, rowVars,
                    scanVars, valVars >>

\* the code after the loop
WorkbookReturn ==
    /\ \/ pc = "workbook_flush"
       \/ pc = "workbook_loop" /\ wb_pos > Len(wb_lines)
    /\ sheets' = FlushSheet(WorkbookState, schema)
    /\ workbook' = Some([sheets |-> sheets'])
    /\ pc' = "workbook_done"
    /\ UNCHANGED << schema, wb_lines, wb_pos, current_sheet_name,
                    current_sheet_lines, parseVars, genVars, rowVars,
                    scanVars, valVars >>

----------------------------------------------------------------------------
(* parse_workbook on bounded texts *)

MaxWbLines == 4

RootMarker == << HASH, SP, "T" >>

WbTextLines ==
    { RootMarker,
      << SP >> \o RootMarker,
      << HASH, HASH, SP, "S" >>,
      << SP, HASH, HASH, SP, "R" >>,
      << PIPE, "a", PIPE >>,
      << >> }

WbTexts == { Join(ls, << NL >>) : ls \in SeqsUpTo(WbTextLines, MaxWbLines) }

WbSchemas ==
    { MultiTableParsingSchema(PIPE, DASH, FALSE, TRUE, RootMarker, 2, None, FALSE),
      MultiTableParsingSchema(PIPE, DASH, FALSE, TRUE, << >>, 2, None, FALSE),
      MultiTableParsingSchema(PIPE, DASH, FALSE, TRUE, RootMarker, 1, None, FALSE) }

InitWB ==
    /\ pc = "parse_workbook"
    /\ schema \in WbSchemas
    /\ markdown \in WbTexts
    /\ lines = << >> /\ idx = 0
    /\ headers = None /\ rows = << >> /\ potential_header = None
    /\ result = None
    /\ Idle

NextWB == WorkbookEnter \/ WorkbookLine \/ WorkbookBreak \/ WorkbookReturn

SpecWB == InitWB /\ [][NextWB]_vars

----------------------------------------------------------------------------
(* scan_tables and parse_sheet: core.py scan_tables, parse_sheet *)

\* MultiTableParsingSchema(): every field at its default
DefaultMultiTableParsingSchema ==
    MultiTableParsingSchema(PIPE, DASH, FALSE, TRUE,
                            << HASH, SP, "T", "a", "b", "l", "e", "s" >>,
                            2, None, FALSE)

\* scan_tables that ignores its schema argument
scan_tables_default_only(md, o) ==
    extract_tables(md, DefaultMultiTableParsingSchema)

\* scan_tables: o is the optional schema argument
scan_tables(md, o) ==
    extract_tables(md, IF IsNone(o) THEN DefaultMultiTableParsingSchema
                       ELSE Get(o))

\* scan_tables(markdown, schema)
ScanTables ==
    /\ pc = "scan_tables"
    /\ tables' = Some(scan_tables(markdown, Some(schema)))
    /\ pc' = "scan_tables_default"
    /\ UNCHANGED << schema, sheet_name, default_tables, parsed_sheet,
                    parseVars, genVars, rowVars, wbVars, valVars >>

\* scan_tables(markdown)
ScanTablesDefault ==
    /\ pc = "scan_tables_default"
    /\ default_tables' = Some(scan_tables(markdown, None))
    /\ pc' = "parse_sheet"
    /\ UNCHANGED << schema, sheet_name, tables, parsed_sheet,
                    parseVars, genVars, rowVars, wbVars, valVars >>

SheetNames == { << "S" >>, << >> }

\* parse_sheet(markdown, name, schema)
ParseSheet ==
    /\ pc = "parse_sheet"
    /\ \E n \in SheetNames :
          /\ sheet_name' = n
          /\ parsed_sheet' = Some(parse_sheet(markdown, n, schema))
    /\ pc' = "sheet_done"
    /\ UNCHANGED << schema, tables, default_tables,
                    parseVars, genVars, rowVars, wbVars, valVars >>

MaxScanLines == 4

\* the lines of a text scanned in heuristic mode
HeuristicTextLines ==
    { << >>,
      << SP >>,
      << "x" >>,
      << "a", PIPE, "b" >>,
      << DASH, PIPE, DASH >>,
      << PIPE >> }

\* the lines of a text scanned in section mode (table headers of level 1)
SectionTextLines ==
    { << >>,
      << "x", SP >>,
      << "a", PIPE, "b" >>,
      << HASH, SP, "N" >>,
      << SP, HASH, SP, "M", SP >> }

HeuristicSchemas == { DefaultMultiTableParsingSchema }

SectionSchemas ==
    { MultiTableParsingSchema(PIPE, DASH, FALSE, TRUE, << >>, 2, Some(1), capture) :
          capture \in BOOLEAN }

InitScan ==
    /\ pc = "scan_tables"
    /\ \/ /\ schema \in HeuristicSchemas
          /\ markdown \in { Join(ls, << NL >>) :
                              ls \in SeqsUpTo(HeuristicTextLines, MaxScanLines) }
       \/ /\ schema \in SectionSchemas
          /\ markdown \in { Join(ls, << NL >>) :
                              ls \in SeqsUpTo(SectionTextLines, MaxScanLines) }
    /\ lines = << >> /\ idx = 0
    /\ headers = None /\ rows = << >> /\ potential_header = None
    /\ result = None
    /\ Idle

NextScan == ScanTables \/ ScanTablesDefault \/ ParseSheet

SpecScan == InitScan /\ [][NextScan]_vars

----------------------------------------------------------------------------
(* Every entry point of the parser on texts with irregular rows and sidecar *)
(* metadata annotations                                                     *)

\* "<!-- md-spreadsheet-metadata: "
MetadataOpen ==
    << "<", "!", "-", "-", " ", "m", "d", "-", "s", "p", "r", "e",
       "a", "d", "s", "h", "e", "e", "t", "-", "m", "e", "t", "a",
       "d", "a", "t", "a", ":", " " >>

\* " -->"
MetadataClose == << SP, DASH, DASH, ">" >>

\* a well-formed blob, {"w": [1]}, and a malformed one, {w
GoodBlob == << "{", "\"", "w", "\"", COLON, SP, "[", "1", "]", "}" >>
BadBlob == << "{", "w" >>

Annotation(blob) == MetadataOpen \o blob \o MetadataClose

\* the lines of a text before its annotation: rows of two and three cells, a
\* divider row, a blank line, a sheet header and a header of level 1
AnyTextLines ==
    { << "a", PIPE, "b" >>,
      << "a", PIPE, "b", PIPE, "c" >>,
      << DASH, PIPE, DASH >>,
      << >>,
      << HASH, HASH, SP, "S" >>,
      << HASH, SP, "X" >> }

\* the end of a text: nothing, or one annotation line
AnyTextEnds ==
    { << >>, << Annotation(GoodBlob) >>, << Annotation(BadBlob) >> }

AnyTexts ==
    { Join(ls \o end, << NL >>) :
          ls \in SeqsUpTo(AnyTextLines, MaxLines), end \in AnyTextEnds }

\* MultiTableParsingSchema(root_marker="")
NoRootSchema ==
    MultiTableParsingSchema(PIPE, DASH, FALSE, TRUE, << >>, 2, None, FALSE)

\* before the caller has chosen an entry point, a text and a schema
InitAll ==
    /\ pc = "idle"
    /\ schema = DEFAULT_SCHEMA
    /\ markdown = << >>
    /\ lines = << >> /\ idx = 0
    /\ headers = None /\ rows = << >> /\ potential_header = None
    /\ result = None
    /\ Idle

\* the caller calls parse_table, scan_tables and parse_sheet, or parse_workbook
Call ==
    /\ pc = "idle"
    /\ \/ pc' = "parse_table" /\ schema' \in { DEFAULT_SCHEMA, NoRootSchema }
       \/ pc' = "scan_tables" /\ schema' = NoRootSchema
       \/ pc' = "parse_workbook" /\ schema' = NoRootSchema
    /\ markdown' \in AnyTexts
    /\ UNCHANGED << lines, idx, headers, rows, potential_header, result,
                    genVars, rowVars, wbVars, scanVars, valVars >>

NextAll == Call \/ Next \/ NextScan \/ NextWB

SpecAll == InitAll /\ [][NextAll]_vars

----------------------------------------------------------------------------
(* Schema-Driven Conversion Layer: validation.py _normalize_header,        *)
(* _convert_value, validate_table                                           *)
(*                                                                          *)
(* A dataclass is the sequence of its fields, each with a name, a type tag  *)
(* ("int", "bool", "str", or "opt_int" for Optional[int]) and has_default.  *)
(* A converted value is a record tagged by its kind.  A converter function  *)
(* is the tag of what it computes.  A dict is a sequence of key/value       *)
(* pairs.                                                                   *)

UpperCase == << "A", "B", "E", "H", "I", "N", "O", "S", "V", "W", "Y" >>
LowerCase == << "a", "b", "e", "h", "i", "n", "o", "s", "v", "w", "y" >>

\* str.lower() on one character
ToLower(c) ==
    IF \E i \in 1..Len(UpperCase) : UpperCase[i] = c
    THEN LowerCase[CHOOSE i \in 1..Len(UpperCase) : UpperCase[i] = c]
    ELSE c

\* str.lower()
LowerStr(q) == [i \in 1..Len(q) |-> ToLower(q[i])]

\* header.lower().replace(" ", "_").strip()
normalize_header(header) ==
    Strip([i \in 1..Len(header) |->
              IF ToLower(header[i]) = SP THEN "_" ELSE ToLower(header[i])])

Digits == << "0", "1", "2", "3", "4", "5", "6", "7", "8", "9" >>
IsDigit(c) == \E i \in 1..Len(Digits) : Digits[i] = c
DigitValue(c) == (CHOOSE i \in 1..Len(Digits) : Digits[i] = c) - 1

\* the value of a string of digits
RECURSIVE DigitsValue(_)
DigitsValue(q) ==
    IF q = << >> THEN 0
    ELSE 10 * DigitsValue(SubSeq(q, 1, Len(q) - 1)) + DigitValue(q[Len(q)])

\* int(value): the integer, or nothing when int raises ValueError.  int takes
\* surrounding whitespace, one sign, and digits with single underscores
\* between them.
ParseInt(value) ==
    LET t == Strip(value)
        signed == t # << >> /\ t[1] \in { "+", DASH }
        body == IF signed THEN Tail(t) ELSE t
        digits == RemoveChar(body, "_")
        wellformed ==
            /\ body # << >>
            /\ \A i \in 1..Len(body) : IsDigit(body[i]) \/ body[i] = "_"
            /\ body[1] # "_" /\ body[Len(body)] # "_"
            /\ \A i \in 1..(Len(body) - 1) : ~(body[i] = "_" /\ body[i + 1] = "_")
    IN  IF ~wellformed THEN None
        ELSE IF signed /\ t[1] = DASH THEN Some(0 - DigitsValue(digits))
        ELSE Some(DigitsValue(digits))

\* converted values
IntValue(n) == [kind |-> "int", int |-> n, bool |-> FALSE, str |-> << >>]
BoolValue(b) == [kind |-> "bool", int |-> 0, bool |-> b, str |-> << >>]
StrValue(q) == [kind |-> "str", int |-> 0, bool |-> FALSE, str |-> q]
NoneValue == [kind |-> "none", int |-> 0, bool |-> FALSE, str |-> << >>]

\* what a conversion does: it returns a value, or raises exc with a message
\* that quotes a literal (or none)
Converted(v) ==
    [ok |-> TRUE, value |-> v, exc |-> "", message |-> "", literal |-> None]
Raises(exc, message, literal) ==
    [ok |-> FALSE, value |-> NoneValue, exc |-> exc, message |-> message,
     literal |-> literal]

\* dict lookup: the value of the last pair with the key, if any
Lookup(dict, key) ==
    LET at == { i \in 1..Len(dict) : dict[i][1] = key }
    IN  IF at = {} THEN None
        ELSE Some(dict[CHOOSE i \in at : \A j \in at : j <= i][2])

\* int(x) as a conversion
IntConversion(value) ==
    IF IsSome(ParseInt(value)) THEN Converted(IntValue(Get(ParseInt(value))))
    ELSE Raises("ValueError", "invalid literal for int() with base 10",
                Some(value))

\* the converter functions of the tests: lambda x: int(x), parse_double
\* (int(v) * 2), and one that raises an exception that is not a ValueError
ApplyConverter(converter, value) ==
    IF converter = "int" THEN IntConversion(value)
    ELSE IF converter = "double"
    THEN IF IsSome(ParseInt(value))
         THEN Converted(IntValue(2 * Get(ParseInt(value))))
         ELSE Raises("ValueError", "invalid literal for int() with base 10",
                     Some(value))
    ELSE Raises("Exception", "", None)

\* the built-in boolean coercion over boolean_pairs[k..]
RECURSIVE BoolFromPairs(_, _, _, _)
BoolFromPairs(value, lower_val, pairs, k) ==
    IF k > Len(pairs)
    THEN Raises("ValueError", "Invalid boolean value", Some(value))
    ELSE IF lower_val = LowerStr(pairs[k][1]) THEN Converted(BoolValue(TRUE))
    ELSE IF lower_val = LowerStr(pairs[k][2]) THEN Converted(BoolValue(FALSE))
    ELSE BoolFromPairs(value, lower_val, pairs, k + 1)

\* the comparison of a cell with the pairs without the trimming
BoolConversionUntrimmed(value, cs) ==
    BoolFromPairs(value, LowerStr(value), cs.boolean_pairs, 1)

\* _convert_value for target_type bool: lower_val = value.lower().strip()
BoolConversion(value, cs) ==
    BoolFromPairs(value, Strip(LowerStr(value)), cs.boolean_pairs, 1)

\* _convert_value(value, target_type, schema)
RECURSIVE convert_value(_, _, _)
convert_value(value, target_type, cs) ==
    IF IsSome(Lookup(cs.custom_converters, target_type))
    THEN ApplyConverter(Get(Lookup(cs.custom_converters, target_type)), value)
    ELSE IF target_type = "opt_int"
    THEN IF Strip(value) = << >> THEN Converted(NoneValue)
         ELSE convert_value(value, "int", cs)
    ELSE IF target_type = "int"
    THEN IF Strip(value) = << >>
         THEN Raises("ValueError", "Empty value for int field", None)
         ELSE IntConversion(value)
    ELSE IF target_type = "bool"
    THEN BoolConversion(value, cs)
    ELSE Converted(StrValue(value))

\* a field of a dataclass
Field(n, type, has_default) ==
    [name |-> n, type |-> type, has_default |-> has_default]

\* cls_fields = {f.name: f for f in fields(schema_cls)}: the field named n
HasField(cls, n) == \E k \in 1..Len(cls) : cls[k].name = n
FieldOf(cls, n) == cls[CHOOSE k \in 1..Len(cls) : cls[k].name = n]

\* header_map: the field name of each column whose normalized header names a
\* field, nothing for the other columns
HeaderMap(hs, cls) ==
    [i \in 1..Len(hs) |->
        IF HasField(cls, normalize_header(hs[i]))
        THEN Some(normalize_header(hs[i])) ELSE None]

\* one message of TableValidationError.errors: "Row <row>: " when row > 0,
\* "Column '<column>': " when there is a column, then the message, which
\* quotes the literal when there is one
ErrorMessage(row, column, message, literal) ==
    [row |-> row, column |-> column, message |-> message, literal |-> literal]

\* the columns of a row that the inner loop converts
MappedColumns(row, header_map) ==
    { i \in 1..Len(row) : i <= Len(header_map) /\ IsSome(header_map[i]) }

\* the row_errors entry of a failed conversion
ColumnError(r, field_name, cell_value, c) ==
    IF c.exc = "ValueError"
    THEN ErrorMessage(r, Some(field_name), c.message, c.literal)
    ELSE ErrorMessage(r, Some(field_name), "Failed to convert", Some(cell_value))

\* row_errors of the columns k.. of a row, labelled with the row number r
RECURSIVE RowErrors(_, _, _, _, _, _)
RowErrors(row, header_map, cls, cs, r, k) ==
    IF k > Len(row) THEN << >>
    ELSE LET rest == RowErrors(row, header_map, cls, cs, r, k + 1)
         IN  IF k \notin MappedColumns(row, header_map) THEN rest
             ELSE LET field_name == Get(header_map[k])
                      c == convert_value(row[k], FieldOf(cls, field_name).type, cs)
                  IN  IF c.ok THEN rest
                      ELSE << ColumnError(r, field_name, row[k], c) >> \o rest

\* row_data[field_name]: the value of the last column mapped to the field
RowData(row, header_map, cls, cs, field_name) ==
    LET at == { i \in MappedColumns(row, header_map) :
                    Get(header_map[i]) = field_name }
    IN  IF at = {} THEN None
        ELSE Some(convert_value(row[CHOOSE i \in at : \A j \in at : j <= i],
                                FieldOf(cls, field_name).type, cs).value)

\* schema_cls(**row_data): the fields that have neither a value nor a default
MissingFields(row, header_map, cls, cs) ==
    { k \in 1..Len(cls) :
        /\ ~cls[k].has_default
        /\ IsNone(RowData(row, header_map, cls, cs, cls[k].name)) }

\* schema_cls(**row_data): the value of every field, the default (None in
\* the dataclasses modelled) where the row gives none
NewObject(row, header_map, cls, cs) ==
    [k \in 1..Len(cls) |->
        IF IsSome(RowData(row, header_map, cls, cs, cls[k].name))
        THEN Get(RowData(row, header_map, cls, cs, cls[k].name))
        ELSE NoneValue]

\* what validate_table does: it returns records, or raises
\* TableValidationError(errors)
Returns(records) == [raised |-> FALSE, records |-> records, errors |-> << >>]
RaisesValidationError(errs) ==
    [raised |-> TRUE, records |-> << >>, errors |-> errs]

\* validate_table up to the row loop
ValidateTableEnter ==
    /\ pc = "validate_table"
    /\ IF ~Truthy(Get(table).headers)
       THEN /\ outcome' = Some(RaisesValidationError(
                   << ErrorMessage(0, None, "Table has no headers", None) >>))
            /\ pc' = "validate_done"
       ELSE /\ outcome' = None
            /\ pc' = "validate_rows"
    /\ row_idx' = 0 /\ results' = << >> /\ errors' = << >>
    /\ UNCHANGED << schema, parseVars, genVars, rowVars, wbVars, scanVars,
                    schema_cls, conversion_schema >>

\* the raise of the first failing row instead of the sweep
ValidateTableRowFailFast ==
    /\ pc = "validate_rows"
    /\ row_idx < Len(Get(table).rows)
    /\ LET row == Get(table).rows[row_idx + 1]
           header_map == HeaderMap(Get(Get(table).headers), schema_cls)
           row_errors == RowErrors(row, header_map, schema_cls,
                                   conversion_schema, row_idx + 1, 1)
           missing == MissingFields(row, header_map, schema_cls,
                                    conversion_schema)
       IN  IF row_errors # << >> \/ missing # {}
           THEN /\ errors' = errors \o
                      (IF row_errors # << >> THEN row_errors
                       ELSE << ErrorMessage(row_idx + 1, None,
                                   "missing required arguments", None) >>)
                /\ outcome' = Some(RaisesValidationError(errors'))
                /\ pc' = "validate_done"
                /\ results' = results
           ELSE /\ results' = Append(results, NewObject(row, header_map,
                                         schema_cls, conversion_schema))
                /\ UNCHANGED << errors, outcome, pc >>
    /\ row_idx' = row_idx + 1
    /\ UNCHANGED << schema, parseVars, genVars, rowVars, wbVars, scanVars,
                    schema_cls, conversion_schema >>

\* one pass of the row loop of validate_table
ValidateTableRow ==
    /\ pc = "validate_rows"
    /\ row_idx < Len(Get(table).rows)
    /\ LET row == Get(table).rows[row_idx + 1]
           header_map == HeaderMap(Get(Get(table).headers), schema_cls)
           row_errors == RowErrors(row, header_map, schema_cls,
                                   conversion_schema, row_idx + 1, 1)
           missing == MissingFields(row, header_map, schema_cls,
                                    conversion_schema)
       IN  IF row_errors # << >>
           THEN /\ errors' = errors \o row_errors
                /\ results' = results
           ELSE IF missing # {}
           THEN /\ errors' = Append(errors,
                      ErrorMessage(row_idx + 1, None,
                                   "missing required arguments", None))
                /\ results' = results
           ELSE /\ results' = Append(results, NewObject(row, header_map,
                                         schema_cls, conversion_schema))
                /\ errors' = errors
    /\ row_idx' = row_idx + 1
    /\ UNCHANGED << pc, outcome, schema, parseVars, genVars, rowVars, wbVars,
                    scanVars, schema_cls, conversion_schema >>

\* validate_table after the row loop
ValidateTableReturn ==
    /\ pc = "validate_rows"
    /\ row_idx = Len(Get(table).rows)
    /\ outcome' = IF errors # << >> THEN Some(RaisesValidationError(errors))
                  ELSE Some(Returns(results))
    /\ pc' = "validate_done"
    /\ UNCHANGED << schema, parseVars, genVars, rowVars, wbVars, scanVars,
                    schema_cls, conversion_schema, row_idx, results, errors >>

----------------------------------------------------------------------------
(* validate_table on bounded Tables, dataclasses and conversion schemas *)

MaxValRows == 2

\* ConversionSchema(boolean_pairs, custom_converters, field_converters)
ConversionSchema(boolean_pairs, custom_converters, field_converters) ==
    [boolean_pairs |-> boolean_pairs, custom_converters |-> custom_converters,
     field_converters |-> field_converters]

\* the default pairs: true/false, yes/no, 1/0, on/off
DEFAULT_CONVERSION_SCHEMA ==
    ConversionSchema(<< << << "t", "r", "u", "e" >>, << "f", "a", "l", "s", "e" >> >>,
                        << << "y", "e", "s" >>, << "n", "o" >> >>,
                        << << "1" >>, << "0" >> >>,
                        << << "o", "n" >>, << "o", "f", "f" >> >> >>,
                     << >>, << >>)

\* ConversionSchema(boolean_pairs=(("hai", "iie"),))
HaiIieSchema ==
    ConversionSchema(<< << << "h", "a", "i" >>, << "i", "i", "e" >> >> >>,
                     << >>, << >>)

\* ConversionSchema(custom_converters={int: lambda x: int(x)},
\*                  field_converters={"val2": parse_double})
OverrideSchema ==
    ConversionSchema(DEFAULT_CONVERSION_SCHEMA.boolean_pairs,
                     << << "int", "int" >> >>,
                     << << << "w" >>, "double" >> >>)

\* a ConversionSchema whose converter for int raises an exception that is
\* not a ValueError
FailingSchema ==
    ConversionSchema(DEFAULT_CONVERSION_SCHEMA.boolean_pairs,
                     << << "int", "fail" >> >>, << >>)

\* class Item: v: int; w: int   (val1 and val2 of the test)
Item == << Field(<< "v" >>, "int", FALSE), Field(<< "w" >>, "int", FALSE) >>

\* class Flag: is_b: bool; n: Optional[int] = None; s: str = None
Flag ==
    << Field(<< "i", "s", "_", "b" >>, "bool", FALSE),
       Field(<< "n" >>, "opt_int", TRUE),
       Field(<< "s" >>, "str", TRUE) >>

ItemHeaders ==
    { None, Some(<< >>),
      Some(<< << "V" >>, << "w" >> >>),
      Some(<< << "w" >>, << "v" >>, << "v" >> >>),
      Some(<< << "v" >>, << "z" >> >>) }

ItemRows ==
    { << << "1", "0" >>, << "1", "0" >> >>,
      << << "x" >>, << "1", "0" >> >>,
      << << "1", "_", "0" >>, << >> >>,
      << << "x" >>, << "y" >>, << "2" >> >>,
      << << SP, DASH, "2", SP >> >> }

FlagHeaders ==
    { Some(<< << "I", "s", SP, "B" >>, << "N" >>, << "S" >> >>),
      Some(<< << "n" >>, << "i", "s", "_", "b" >> >>),
      Some(<< << SP, "I", "S", "_", "B" >> >>) }

FlagRows ==
    { << << "Y", "e", "s" >>, << >>, << "s" >> >>,
      << << "0" >>, << "1" >> >>,
      << << "h", "a", "i" >>, << "x" >> >>,
      << << SP, "I", "I", "E", SP >>, << SP >> >>,
      << << >>, << "O", "n" >> >>,
      << << "1" >>, << "o", "f", "f" >> >> }

InitVal ==
    /\ pc = "validate_table"
    /\ \/ /\ schema_cls = Item
          /\ conversion_schema \in
                 { DEFAULT_CONVERSION_SCHEMA, OverrideSchema, FailingSchema }
          /\ table \in { Some(Table(h, rs)) :
                           h \in ItemHeaders, rs \in SeqsUpTo(ItemRows, MaxValRows) }
       \/ /\ schema_cls = Flag
          /\ conversion_schema \in { DEFAULT_CONVERSION_SCHEMA, HaiIieSchema }
          /\ table \in { Some(Table(h, rs)) :
                           h \in FlagHeaders, rs \in SeqsUpTo(FlagRows, MaxValRows) }
    /\ row_idx = 0 /\ results = << >> /\ errors = << >> /\ outcome = None
    /\ schema = DEFAULT_SCHEMA
    /\ markdown = << >> /\ lines = << >> /\ idx = 0
    /\ headers = None /\ rows = << >> /\ potential_header = None
    /\ result = None /\ regenerated = None /\ given_workbook = None
    /\ line = << >> /\ cells = None
    /\ wb_lines = << >> /\ wb_pos = 0
    /\ current_sheet_name = None /\ current_sheet_lines = << >>
    /\ sheets = << >> /\ workbook = None
    /\ ScanIdle

NextVal == ValidateTableEnter \/ ValidateTableRow \/ ValidateTableReturn

SpecVal == InitVal /\ [][NextVal]_vars

----------------------------------------------------------------------------
(* generate_table_markdown on named and described Tables under           *)
(* single-table and multi-table schemas                                   *)

RenderCells == { << "a" >>, << >>, << "b", PIPE >> }

RenderRows == SeqsUpTo(RenderCells, MaxCols)

RenderNames == { None, Some(<< >>), Some(<< "T" >>) }

RenderDescriptions == { None, Some(<< >>), Some(<< "d", SP, "e" >>) }

RenderTables ==
    { [headers |-> h, rows |-> rs, name |-> n, description |-> d,
       metadata |-> << >>] :
          h \in { None, Some(<< >>), Some(<< << "a" >> >>),
                  Some(<< << "b", PIPE >>, << >> >>) },
          rs \in SeqsUpTo({ << >>, << << "a" >> >>, << << "a" >>, << "b", PIPE >> >> },
                          MaxRows),
          n \in RenderNames, d \in RenderDescriptions }

RenderSchemas ==
    { ParsingSchema(",", "=", outer, TRUE) : outer \in BOOLEAN }
    \cup { MultiTableParsingSchema(PIPE, DASH, outer, TRUE,
                                   << "#", SP, "T", "a", "b", "l", "e", "s" >>,
                                   2, level, capture) :
               outer \in BOOLEAN, level \in { None, Some(3) },
               capture \in BOOLEAN }

InitGen ==
    /\ pc = "generate"
    /\ schema \in RenderSchemas
    /\ table \in { Some(t) : t \in RenderTables }
    /\ regenerated = None /\ given_workbook = None
    /\ markdown = << >> /\ lines = << >> /\ idx = 0
    /\ headers = None /\ rows = << >> /\ potential_header = None
    /\ result = None
    /\ line = << >> /\ cells = None
    /\ wb_lines = << >> /\ wb_pos = 0
    /\ current_sheet_name = None /\ current_sheet_lines = << >>
    /\ sheets = << >> /\ workbook = None
    /\ ScanIdle /\ ValidateIdle

NextGen == Generate

SpecGen == InitGen /\ [][NextGen]_vars

----------------------------------------------------------------------------
(* Generator: generator.py generate_sheet_markdown,                       *)
(* generate_workbook_markdown                                              *)

\* a Sheet and a Workbook as the caller constructs them
Sheet(n, ts) == [name |-> n, tables |-> ts]
Workbook(shs) == [sheets |-> shs]

\* the lines list of both loops: each part, and the between lines after
\* every part but the last
RECURSIVE LinesWithBetween(_, _)
LinesWithBetween(parts, between) ==
    IF parts = << >> THEN << >>
    ELSE IF Len(parts) = 1 THEN << parts[1] >>
    ELSE << parts[1] >> \o between \o LinesWithBetween(Tail(parts), between)

\* the rendering without the empty line between two tables
generate_sheet_markdown_no_blank(sh, s) ==
    LET header_lines ==
            IF s.multi
            THEN << Repeat(HASH, s.sheet_header_level) \o << SP >> \o sh.name,
                    << >> >>
            ELSE << >>
        table_lines ==
            LinesWithBetween([i \in 1..Len(sh.tables) |->
                                 generate_table_markdown(sh.tables[i], s)],
                             << >>)
    IN  Join(header_lines \o table_lines, << NL >>)

generate_sheet_markdown(sh, s) ==
    LET header_lines ==
            IF s.multi
            THEN << Repeat(HASH, s.sheet_header_level) \o << SP >> \o sh.name,
                    << >> >>
            ELSE << >>
        table_lines ==
            LinesWithBetween([i \in 1..Len(sh.tables) |->
                                 generate_table_markdown(sh.tables[i], s)],
                             << << >> >>)
    IN  Join(header_lines \o table_lines, << NL >>)

\* the rendering with one empty line between sheets
generate_workbook_markdown_one_blank(w, s) ==
    LET marker_lines ==
            IF s.root_marker # << >> THEN << s.root_marker, << >> >>
            ELSE << >>
        sheet_lines ==
            LinesWithBetween([i \in 1..Len(w.sheets) |->
                                 generate_sheet_markdown(w.sheets[i], s)],
                             << << >> >>)
    IN  Join(marker_lines \o sheet_lines, << NL >>)

generate_workbook_markdown(w, s) ==
    LET marker_lines ==
            IF s.root_marker # << >> THEN << s.root_marker, << >> >>
            ELSE << >>
        sheet_lines ==
            LinesWithBetween([i \in 1..Len(w.sheets) |->
                                 generate_sheet_markdown(w.sheets[i], s)],
                             << << >>, << >> >>)
    IN  Join(marker_lines \o sheet_lines, << NL >>)

\* m = generate_workbook_markdown(w, s), handed to parse_workbook(m, s)
GenerateWorkbook ==
    /\ pc = "generate_workbook"
    /\ markdown' = generate_workbook_markdown(Get(given_workbook), schema)
    /\ pc' = "parse_workbook"
    /\ UNCHANGED << schema, lines, idx, headers, rows, potential_header,
                    result, genVars, rowVars, wbVars, scanVars, valVars >>

----------------------------------------------------------------------------
(* generate_workbook_markdown and parse_workbook on bounded Workbooks *)

MaxSheets == 2

PlainTable == Table(Some(<< << "a" >>, << "b" >> >>), << << << "1" >>, << "2" >> >> >>)

OneColumnTable == Table(Some(<< << "c" >> >>), << >>)

GivenTables ==
    { PlainTable, OneColumnTable,
      \* a first cell that starts with '#'
      Table(Some(<< << "a" >> >>), << << << HASH, "x" >> >> >>),
      \* an empty cell
      Table(Some(<< << "a" >>, << "b" >> >>), << << << >>, << "2" >> >> >>),
      \* a row shorter than the headers
      Table(Some(<< << "a" >>, << "b" >> >>), << << << "1" >> >> >>),
      \* no headers
      Table(None, << << << "1" >> >> >>),
      \* a description that is a table
      [Table(Some(<< << "a" >> >>), << >>) EXCEPT
          !.description = Some(<< "d", NL, DASH >>)],
      \* a description that is not, and a name
      [PlainTable EXCEPT !.description = Some(<< "d", SP, "e" >>),
                         !.name = Some(<< "T" >>)] }

\* sheets that a workbook holds next to one of GivenSheets
OtherSheets ==
    { Sheet(<< "S" >>, << >>),
      Sheet(<< "R", SP, "2" >>, << PlainTable, OneColumnTable >>),
      Sheet(<< "Q" >>, << PlainTable, PlainTable >>) }

GivenSheets ==
    { Sheet(<< "S" >>, << OneColumnTable, OneColumnTable >>),
      Sheet(<< "S", NL, "x" >>, << PlainTable >>),
      Sheet(<< >>, << PlainTable >>),
      Sheet(<< SP, "S" >>, << PlainTable >>),
      Sheet(<< HASH, "S" >>, << PlainTable >>) }
    \cup { Sheet(<< "S" >>, << t >>) : t \in GivenTables }
    \cup OtherSheets

\* at most one sheet of GivenSheets, first or last, and sheets of OtherSheets
GivenWorkbooks ==
    { Workbook(shs) : shs \in SeqsUpTo(OtherSheets, MaxSheets) }
    \cup { Workbook(<< sh >> \o shs) :
               sh \in GivenSheets, shs \in SeqsUpTo(OtherSheets, MaxSheets - 1) }
    \cup { Workbook(shs \o << sh >>) :
               sh \in GivenSheets, shs \in SeqsUpTo(OtherSheets, MaxSheets - 1) }

GivenSchemas ==
    { MultiTableParsingSchema(PIPE, DASH, FALSE, TRUE, << >>, 2, None, FALSE),
      MultiTableParsingSchema(PIPE, DASH, TRUE, TRUE, RootMarker, 2, None, FALSE),
      MultiTableParsingSchema(PIPE, DASH, FALSE, TRUE, RootMarker, 1, None, TRUE),
      MultiTableParsingSchema(PIPE, DASH, TRUE, TRUE, << >>, 2, None, TRUE),
      \* cells are not trimmed
      MultiTableParsingSchema(PIPE, DASH, TRUE, FALSE, << >>, 2, None, FALSE),
      \* a root marker that ends with a space
      MultiTableParsingSchema(PIPE, DASH, TRUE, TRUE, RootMarker \o << SP >>, 2,
                              None, FALSE),
      \* sheet headers without '#'
      MultiTableParsingSchema(PIPE, DASH, TRUE, TRUE, << >>, 0, None, FALSE) }

InitWBRT ==
    /\ pc = "generate_workbook"
    /\ schema \in GivenSchemas
    /\ given_workbook \in { Some(w) : w \in GivenWorkbooks }
    /\ table = None /\ regenerated = None
    /\ markdown = << >> /\ lines = << >> /\ idx = 0
    /\ headers = None /\ rows = << >> /\ potential_header = None
    /\ result = None
    /\ line = << >> /\ cells = None
    /\ wb_lines = << >> /\ wb_pos = 0
    /\ current_sheet_name = None /\ current_sheet_lines = << >>
    /\ sheets = << >> /\ workbook = None
    /\ ScanIdle /\ ValidateIdle

NextWBRT == GenerateWorkbook \/ NextWB

SpecWBRT == InitWBRT /\ [][NextWBRT]_vars

----------------------------------------------------------------------------
(* What the claims are stated over *)

Min(S) == CHOOSE x \in S : \A y \in S : x <= y

\* the j-th smallest element of a finite set of integers
Kth(S, j) == CHOOSE x \in S : Cardinality({ y \in S : y < x }) = j - 1

\* the characters of q at the positions in keep, in order
AtPositions(q, keep) ==
    [j \in 1..Cardinality(keep) |-> q[Kth(keep, j)]]

\* the non-empty lines of a text, trimmed, in document order
NonBlankLines(md) ==
    LET ls == Split(Strip(md), NL)
        keep == { i \in 1..Len(ls) : Strip(ls[i]) # << >> }
    IN  [j \in 1..Cardinality(keep) |-> Strip(ls[Kth(keep, j)])]

\* r1..rn: the tokenized non-empty lines of a text
Tokenized(md, s) ==
    LET nb == NonBlankLines(md)
    IN  [i \in 1..Len(nb) |-> Get(parse_row(nb[i], s))]

\* the positions k >= 2 whose row is classified as a separator row
SeparatorPositions(toks, s) ==
    { k \in 2..Len(toks) : is_separator_row(toks[k], s) }

\* r1..r(k-2) followed by r(k+1)..rn
DataAround(toks, k) ==
    SubSeq(toks, 1, k - 2) \o SubSeq(toks, k + 1, Len(toks))

Parsed == pc = "parsed"
ResultTable == Get(result)

----------------------------------------------------------------------------
(* C1 *)

\* C1: when k >= 2 is the first position of r1..rn whose row is classified as
\* a separator row, parse_table returns headers = r(k-1) and rows = r1..r(k-2)
\* followed by r(k+1)..rn, each normalized to the header length.
C1_HeaderCommit ==
    Parsed =>
        LET toks == Tokenized(markdown, schema)
            seps == SeparatorPositions(toks, schema)
        IN  seps # {} =>
                LET k == Min(seps)
                    data == DataAround(toks, k)
                IN  /\ ResultTable.headers = Some(toks[k - 1])
                    /\ ResultTable.rows =
                          [i \in 1..Len(data) |->
                              NormalizeRow(data[i], Len(toks[k - 1]))]

\* The same statement for a committed header row of at least one cell; when
\* the committed header row has no cell the rows are returned as tokenized.
C1_HeaderCommitNonEmptyHeader ==
    Parsed =>
        LET toks == Tokenized(markdown, schema)
            seps == SeparatorPositions(toks, schema)
        IN  seps # {} =>
                LET k == Min(seps)
                    data == DataAround(toks, k)
                IN  /\ ResultTable.headers = Some(toks[k - 1])
                    /\ toks[k - 1] # << >> =>
                          ResultTable.rows =
                              [i \in 1..Len(data) |->
                                  NormalizeRow(data[i], Len(toks[k - 1]))]
                    /\ toks[k - 1] = << >> => ResultTable.rows = data

----------------------------------------------------------------------------
(* C2 *)

\* C2: when no tokenized non-empty line at position >= 2 is classified as a
\* separator row, parse_table returns no headers and rows equal to all the
\* tokenized non-empty lines in document order.
C2_HeaderlessFlush ==
    Parsed =>
        LET toks == Tokenized(markdown, schema)
        IN  SeparatorPositions(toks, schema) = {} =>
                /\ ResultTable.headers = None
                /\ ResultTable.rows = toks

\* a headerless result of two rows, the last of which was the buffered row
C2_Witness ==
    /\ Parsed
    /\ SeparatorPositions(Tokenized(markdown, schema), schema) = {}
    /\ Len(Tokenized(markdown, schema)) = 2
    /\ ResultTable.headers = None
    /\ Len(ResultTable.rows) = 2

----------------------------------------------------------------------------
(* C3 *)

\* C3: in every Table returned by parse_table with headers present, every row
\* has exactly as many cells as there are headers and is the tokenized row
\* right-padded with empty strings or right-truncated.
C3_RowLength ==
    Parsed =>
        (IsSome(ResultTable.headers) =>
            LET toks == Tokenized(markdown, schema)
                data == DataAround(toks, Min(SeparatorPositions(toks, schema)))
                n == Len(Get(ResultTable.headers))
            IN  /\ Len(ResultTable.rows) = Len(data)
                /\ \A i \in 1..Len(ResultTable.rows) :
                      /\ Len(ResultTable.rows[i]) = n
                      /\ ResultTable.rows[i] = NormalizeRow(data[i], n))

----------------------------------------------------------------------------
(* C7 *)

\* the positions of l holding a separator not immediately preceded by a backslash
UnescapedSeparators(l, sep) ==
    { i \in 1..Len(l) : l[i] = sep /\ (i = 1 \/ l[i - 1] # BS) }

\* l cut at exactly the positions in cuts
CutAt(l, cuts) ==
    [j \in 1..(Cardinality(cuts) + 1) |->
        SubSeq(l,
               IF j = 1 THEN 1 ELSE Kth(cuts, j - 1) + 1,
               IF j = Cardinality(cuts) + 1 THEN Len(l) ELSE Kth(cuts, j) - 1)]

\* q without the backslashes that immediately precede a separator
WithoutEscapes(q, sep) ==
    AtPositions(q, { i \in 1..Len(q) :
                        ~(q[i] = BS /\ i < Len(q) /\ q[i + 1] = sep) })

\* C7: parse_row splits the trimmed line at every column separator that is not
\* immediately preceded by a backslash and nowhere else, and every returned
\* cell has each backslash-plus-separator pair replaced by the bare separator.
C7_EscapedSplit ==
    pc = "row_done" =>
        IF Strip(line) = << >> THEN cells = None
        ELSE LET sep == schema.column_separator
                 l == Strip(line)
                 parts == DropOuter(CutAt(l, UnescapedSeparators(l, sep)))
             IN  cells = Some([i \in 1..Len(parts) |->
                     WithoutEscapes(IF schema.strip_whitespace
                                    THEN Strip(parts[i]) ELSE parts[i], sep)])

\* a\|b parses to the single cell a|b
C7_Witness ==
    /\ pc = "row_done"
    /\ line = << "a", BS, PIPE, "a" >>
    /\ cells = Some(<< << "a", PIPE, "a" >> >>)

----------------------------------------------------------------------------
(* C4, C5, C6 *)

InputTable == Get(table)

AllCells(t) ==
    (IF IsSome(t.headers)
     THEN { Get(t.headers)[j] : j \in 1..Len(Get(t.headers)) } ELSE {})
    \cup UNION { { t.rows[i][j] : j \in 1..Len(t.rows[i]) } :
                 i \in 1..Len(t.rows) }

\* t has headers and no cell of t contains the column separator
HeadersNoSeparator(t, s) ==
    /\ IsSome(t.headers)
    /\ \A c \in AllCells(t) : ~Contains(c, s.column_separator)

\* t has at least one header and every row has one cell per header
Rectangular(t) ==
    /\ IsSome(t.headers)
    /\ Len(Get(t.headers)) >= 1
    /\ \A i \in 1..Len(t.rows) : Len(t.rows[i]) = Len(Get(t.headers))

\* every cell is trimmed, free of line breaks, and non-empty unless the rows
\* are written with outer separators
PlainCells(t, s) ==
    \A c \in AllCells(t) :
        /\ Strip(c) = c
        /\ ~Contains(c, NL)
        /\ (c # << >> \/ s.require_outer_pipes)

SameHeadersAndRows(t, u) == u.headers = t.headers /\ u.rows = t.rows

SomeCellHasSeparator(t, s) ==
    \E c \in AllCells(t) : Contains(c, s.column_separator)

\* the number of occurrences of c in q
RECURSIVE CountChar(_, _)
CountChar(q, c) ==
    IF q = << >> THEN 0
    ELSE (IF Head(q) = c THEN 1 ELSE 0) + CountChar(Tail(q), c)

\* the number of column separators of the text preceded by a backslash
EscapedSeparators(m, sep) ==
    Cardinality({ i \in 2..Len(m) : m[i] = sep /\ m[i - 1] = BS })

\* the number of column separators in the cells of t
SeparatorsInCells(t, s) ==
    LET hs == IF IsSome(t.headers) THEN << Get(t.headers) >> ELSE << >>
        all == hs \o t.rows
        RECURSIVE InRow(_), InRows(_)
        InRow(r) == IF r = << >> THEN 0
                    ELSE CountChar(Head(r), s.column_separator) + InRow(Tail(r))
        InRows(rs) == IF rs = << >> THEN 0
                      ELSE InRow(Head(rs)) + InRows(Tail(rs))
    IN  InRows(all)

\* C6: for a Table with headers in which some cell contains the column
\* separator, generate_table_markdown writes that occurrence backslash-escaped
\* and parse_table of the text returns t's headers and rows.
C6_EscapedOnGeneration ==
    (/\ pc = "reparsed"
     /\ schema.strip_whitespace
     /\ Rectangular(InputTable)
     /\ PlainCells(InputTable, schema)
     /\ SomeCellHasSeparator(InputTable, schema))
        => /\ EscapedSeparators(markdown, schema.column_separator)
                = SeparatorsInCells(InputTable, schema)
           /\ SameHeadersAndRows(InputTable, ResultTable)

----------------------------------------------------------------------------
(* C8, C9, C10 *)

WorkbookDone == pc = "workbook_done"
ResultWorkbook == Get(workbook)
WorkbookLines == Split(markdown, NL)

\* the same schema with no root marker configured
WithoutRootMarker(s) == [s EXCEPT !.root_marker = << >>]

\* the sheets of a Workbook without the metadata of their tables (which
\* records the schema)
SheetContents(w) ==
    [i \in 1..Len(w.sheets) |->
        [name |-> w.sheets[i].name,
         tables |-> [j \in 1..Len(w.sheets[i].tables) |->
                        [headers |-> w.sheets[i].tables[j].headers,
                         rows |-> w.sheets[i].tables[j].rows,
                         name |-> w.sheets[i].tables[j].name,
                         description |-> w.sheets[i].tables[j].description]]]]

\* lines a..b of the text, as a text
TextOf(ls, a, b) == Join(SubSeq(ls, a, b), << NL >>)

\* the positions of the lines that are the root marker once trimmed
MarkerLines == { i \in 1..Len(WorkbookLines) : Strip(WorkbookLines[i]) = schema.root_marker }

\* the positions of the lines that equal the root marker as written
MarkerLinesAsWritten == { i \in 1..Len(WorkbookLines) : WorkbookLines[i] = schema.root_marker }

\* the scan takes place: no root marker is configured, or one is found
Scanned == schema.root_marker = << >> \/ MarkerLines # {}

\* the first scanned line
FirstScanned == IF schema.root_marker = << >> THEN 1 ELSE Min(MarkerLines) + 1

\* the scanned lines whose leading "#" count, taken after trimming, is at
\* least 1 and less than sheet_header_level
Terminators ==
    { i \in FirstScanned..Len(WorkbookLines) :
        /\ HeaderLevel(Strip(WorkbookLines[i])) >= 1
        /\ HeaderLevel(Strip(WorkbookLines[i])) < schema.sheet_header_level }

\* the same with the count taken on the line as written
TerminatorsAsWritten ==
    { i \in FirstScanned..Len(WorkbookLines) :
        /\ HeaderLevel(WorkbookLines[i]) >= 1
        /\ HeaderLevel(WorkbookLines[i]) < schema.sheet_header_level }

\* the last line of the scanned region
LastScanned == IF Terminators = {} THEN Len(WorkbookLines) ELSE Min(Terminators) - 1

\* C8: the first scanned line whose count of leading '#' is at least 1 and
\* less than sheet_header_level ends the scan: the Workbook is the one the
\* text cut before that line gives, so no line at or after it opens a sheet or
\* contributes to one, and the sheet open there is flushed with the lines
\* before it.  Stated for the count on the trimmed line and on the line as
\* written.
C8_EarlyTermination ==
    (WorkbookDone /\ Scanned) =>
        /\ Terminators # {} =>
              ResultWorkbook =
                  parse_workbook(TextOf(WorkbookLines, 1, Min(Terminators) - 1),
                                 schema)
        /\ TerminatorsAsWritten # {} =>
              ResultWorkbook =
                  parse_workbook(TextOf(WorkbookLines, 1,
                                        Min(TerminatorsAsWritten) - 1),
                                 schema)

\* a sheet with a table was open at the terminating line and a sheet header
\* follows that line
C8_Witness ==
    /\ WorkbookDone /\ Scanned
    /\ Terminators # {}
    /\ \E i \in (Min(Terminators) + 1)..Len(WorkbookLines) :
          StartsWith(Strip(WorkbookLines[i]), HeaderPrefix(schema.sheet_header_level))
    /\ Len(ResultWorkbook.sheets) = 1
    /\ Len(ResultWorkbook.sheets[1].tables) = 1

\* C9: when root_marker is set and no line of the text equals the marker,
\* parse_workbook returns a Workbook with zero sheets; when a line equals it,
\* the sheets are those that the lines after its first occurrence give on
\* their own, so no line at or before the marker contributes to a sheet.
C9_RootMarker ==
    (WorkbookDone /\ schema.root_marker # << >>) =>
        /\ MarkerLinesAsWritten = {} => ResultWorkbook.sheets = << >>
        /\ MarkerLinesAsWritten # {} =>
              SheetContents(ResultWorkbook) =
                  SheetContents(
                      parse_workbook(TextOf(WorkbookLines, Min(MarkerLinesAsWritten) + 1,
                                            Len(WorkbookLines)),
                                     WithoutRootMarker(schema)))

\* C9, amended: the same with a line compared to the marker after trimming its
\* surrounding whitespace.
C9_RootMarkerTrimmed ==
    (WorkbookDone /\ schema.root_marker # << >>) =>
        /\ MarkerLines = {} => ResultWorkbook.sheets = << >>
        /\ MarkerLines # {} =>
              SheetContents(ResultWorkbook) =
                  SheetContents(
                      parse_workbook(TextOf(WorkbookLines, Min(MarkerLines) + 1,
                                            Len(WorkbookLines)),
                                     WithoutRootMarker(schema)))

\* no line is the marker, the text has a sheet header and a table row, and
\* the Workbook is empty
C9_Witness ==
    /\ WorkbookDone
    /\ schema.root_marker # << >>
    /\ MarkerLines = {}
    /\ \E i \in 1..Len(WorkbookLines) :
          StartsWith(Strip(WorkbookLines[i]), HeaderPrefix(schema.sheet_header_level))
    /\ \E i \in 1..Len(WorkbookLines) : Contains(WorkbookLines[i], PIPE)
    /\ ResultWorkbook.sheets = << >>

\* the sheets that the header lines at the positions hs of the scanned region
\* give, each header line h read as the line headerLine[h]
SheetsAt(hs, headerLine) ==
    [j \in 1..Cardinality(hs) |->
        LET h == Kth(hs, j)
            next == IF j < Cardinality(hs) THEN Kth(hs, j + 1) - 1
                    ELSE LastScanned
            prefix == HeaderPrefix(schema.sheet_header_level)
        IN  [name |-> Strip(SubSeq(headerLine[h], Len(prefix) + 1,
                                   Len(headerLine[h]))),
             tables |-> extract_tables(TextOf(WorkbookLines, h + 1, next), schema)]]

\* C10: the Workbook has exactly one Sheet per line of the scanned region that
\* starts with the sheet header prefix, in document order, named by the
\* trimmed remainder of the line, with the tables the Multi-Table Extractor
\* finds in the lines up to the next such line or the end of the region.
C10_SheetSplitting ==
    (WorkbookDone /\ Scanned) =>
        ResultWorkbook.sheets =
            SheetsAt({ i \in FirstScanned..LastScanned :
                         StartsWith(WorkbookLines[i],
                                    HeaderPrefix(schema.sheet_header_level)) },
                     WorkbookLines)

\* C10, amended: the same with a header line being a line that starts with the
\* sheet header prefix after trimming its surrounding whitespace.
C10_SheetSplittingTrimmed ==
    (WorkbookDone /\ Scanned) =>
        ResultWorkbook.sheets =
            SheetsAt({ i \in FirstScanned..LastScanned :
                         StartsWith(Strip(WorkbookLines[i]),
                                    HeaderPrefix(schema.sheet_header_level)) },
                     [i \in 1..Len(WorkbookLines) |-> Strip(WorkbookLines[i])])

\* two sheets in document order, the first with a table, the second without
C10_Witness ==
    /\ WorkbookDone /\ Scanned
    /\ Len(ResultWorkbook.sheets) = 2
    /\ ResultWorkbook.sheets[1].name = << "S" >>
    /\ ResultWorkbook.sheets[2].name = << "R" >>
    /\ Len(ResultWorkbook.sheets[1].tables) = 1
    /\ ResultWorkbook.sheets[2].tables = << >>

----------------------------------------------------------------------------
(* C11, C18, C19: the Multi-Table Extractor behind scan_tables, parse_sheet *)

SheetDone == pc = "sheet_done"
ScannedTables == Get(tables)
DefaultScannedTables == Get(default_tables)
ResultSheet == Get(parsed_sheet)

Max(S) == CHOOSE x \in S : \A y \in S : y <= x

\* "no headers and no rows": headers absent or an empty list, and no row
EntirelyEmpty(t) == t.rows = << >> /\ ~Truthy(t.headers)

\* the first lines of the chunks of ls: a chunk is a maximal run of lines that
\* are not empty (a blank-line boundary is an empty line)
ChunkStarts(ls) ==
    { i \in 1..Len(ls) : ls[i] # << >> /\ (i = 1 \/ ls[i - 1] = << >>) }

\* the last line of the chunk that starts at line i
ChunkEnd(ls, i) ==
    Max({ j \in i..Len(ls) : \A k \in i..j : ls[k] # << >> })

ChunkText(ls, i) == TextOf(ls, i, ChunkEnd(ls, i))

\* the chunks that yield a table: not blank, with a column separator, and whose
\* parse is not entirely empty
TableChunks(ls, s) ==
    { i \in ChunkStarts(ls) :
        /\ Strip(ChunkText(ls, i)) # << >>
        /\ Contains(ChunkText(ls, i), s.column_separator)
        /\ ~EntirelyEmpty(parse_table(ChunkText(ls, i), s)) }

\* parse_table of every chunk that yields a table, in document order
HeuristicTables(md, s) ==
    LET ls == Split(md, NL)
        starts == TableChunks(ls, s)
    IN  [j \in 1..Cardinality(starts) |->
            parse_table(ChunkText(ls, Kth(starts, j)), s)]

\* the table-header lines of ls
TableHeaderLines(ls, s) ==
    { i \in 1..Len(ls) :
        StartsWith(Strip(ls[i]), HeaderPrefix(Get(s.table_header_level))) }

\* the last line of the block of the table-header line h
BlockEnd(ls, s, h) ==
    IF \E i \in TableHeaderLines(ls, s) : i > h
    THEN Min({ i \in TableHeaderLines(ls, s) : i > h }) - 1
    ELSE Len(ls)

\* the lines of the block of h that contain the column separator
SeparatorLines(ls, s, h) ==
    { i \in (h + 1)..BlockEnd(ls, s, h) : Contains(ls[i], s.column_separator) }

\* the non-blank lines of ls between lines a and b, trimmed
TrimmedNonBlank(ls, a, b) ==
    LET keep == { i \in a..b : Strip(ls[i]) # << >> }
    IN  [j \in 1..Cardinality(keep) |-> Strip(ls[Kth(keep, j)])]

\* the Table of the block of the table-header line h
SectionTable(ls, s, h) ==
    LET first == Min(SeparatorLines(ls, s, h))
        t == parse_table(TextOf(ls, first, BlockEnd(ls, s, h)), s)
        before == TrimmedNonBlank(ls, h + 1, first - 1)
        stripped == Strip(ls[h])
        prefix == HeaderPrefix(Get(s.table_header_level))
    IN  [headers |-> t.headers, rows |-> t.rows,
         name |-> Some(Strip(SubSeq(stripped, Len(prefix) + 1, Len(stripped)))),
         description |-> IF s.capture_description /\ before # << >>
                         THEN Some(Join(before, << NL >>)) ELSE None,
         metadata |-> t.metadata]

\* one Table per table-header line whose block has a separator line
SectionTables(md, s) ==
    LET ls == Split(md, NL)
        hs == { h \in TableHeaderLines(ls, s) : SeparatorLines(ls, s, h) # {} }
    IN  [j \in 1..Cardinality(hs) |-> SectionTable(ls, s, Kth(hs, j))]

\* the Multi-Table Extractor's result on a whole text
ExtractorTables(md, s) ==
    IF IsSome(s.table_header_level) THEN SectionTables(md, s)
    ELSE HeuristicTables(md, s)

\* C11: scan_tables(text, s) and parse_sheet(text, name, s).tables are the same
\* sequence of Tables, the Multi-Table Extractor's result on the whole text;
\* the returned Sheet has the given name; and scan_tables(text) returns what
\* the extractor returns under the default MultiTableParsingSchema.
C11_ScanSheetEquivalence ==
    SheetDone =>
        /\ ScannedTables = ResultSheet.tables
        /\ ScannedTables = ExtractorTables(markdown, schema)
        /\ ResultSheet.name = sheet_name
        /\ DefaultScannedTables
               = ExtractorTables(markdown, DefaultMultiTableParsingSchema)
        /\ schema = DefaultMultiTableParsingSchema
               => DefaultScannedTables = ResultSheet.tables

\* both calls returned at least one Table, under a schema that is not the
\* default, for a sheet with a non-empty name
C11_Witness ==
    /\ SheetDone
    /\ schema # DefaultMultiTableParsingSchema
    /\ sheet_name # << >>
    /\ ScannedTables # << >>
    /\ ResultSheet.tables # << >>
    /\ DefaultScannedTables # ScannedTables

C19_SectionMode ==
    (IsSome(tables) /\ IsSome(schema.table_header_level)) =>
        LET ls == Split(markdown, NL)
            hs == { h \in TableHeaderLines(ls, schema) :
                      SeparatorLines(ls, schema, h) # {} }
        IN  /\ Len(ScannedTables) = Cardinality(hs)
            /\ \A j \in 1..Len(ScannedTables) :
                  ScannedTables[j] = SectionTable(ls, schema, Kth(hs, j))
            /\ ~schema.capture_description
                  => \A j \in 1..Len(ScannedTables) :
                        IsNone(ScannedTables[j].description)
            /\ TableHeaderLines(ls, schema) = {} => ScannedTables = << >>

\* section mode returned a described table and skipped a named block that has
\* no separator line
C19_Witness ==
    /\ IsSome(tables)
    /\ IsSome(schema.table_header_level)
    /\ \E j \in 1..Len(ScannedTables) : IsSome(ScannedTables[j].description)
    /\ Cardinality(TableHeaderLines(Split(markdown, NL), schema))
           > Len(ScannedTables)

----------------------------------------------------------------------------
(* C17: a row of zero cells and the separator-row detector *)

\* the loop's variables after the first i lines
AfterLines(i) == ParseLoop(ParseStart, SubSeq(lines, 1, i), schema)

\* the lines consumed so far that tokenize to a row of zero cells
ZeroCellLines ==
    { i \in 1..idx : parse_row(Strip(lines[i]), schema) = Some(<< >>) }

\* C17: a row of zero cells is never a separator row: is_separator_row is
\* false for it, and a line that tokenizes to zero cells never makes
\* parse_table commit the buffered row as headers.
C17_EmptyRowNotSeparator ==
    \A i \in ZeroCellLines :
        /\ ~is_separator_row(<< >>, schema)
        /\ AfterLines(i).headers = AfterLines(i - 1).headers

----------------------------------------------------------------------------
(* C12: sidecar metadata *)

\* the lines of the text given to parse_table
GivenLines == Split(markdown, NL)

\* a row line, a divider line or a blank line
IsTableLine(l) == l = << >> \/ Contains(l, PIPE)

\* the text is a table followed, possibly after blank lines, by one
\* well-formed annotation line
AnnotatedTable ==
    /\ Len(GivenLines) >= 2
    /\ GivenLines[Len(GivenLines)] = Annotation(GoodBlob)
    /\ \A i \in 1..(Len(GivenLines) - 1) : IsTableLine(GivenLines[i])
    /\ \E i \in 1..(Len(GivenLines) - 1) : GivenLines[i] # << >>

\* C12: for a table followed, possibly after blank lines, by a single-line
\* annotation, parse_table returns the table's data rows without the
\* annotation line as a row, and the Table's metadata holds the blob under the
\* key 'visual' next to the record of the schema used.
C12_SidecarMetadata ==
    (Parsed /\ AnnotatedTable) =>
        /\ ResultTable.rows
               = parse_table(TextOf(GivenLines, 1, Len(GivenLines) - 1),
                             schema).rows
        /\ \A i \in 1..Len(ResultTable.rows) :
              \A j \in 1..Len(ResultTable.rows[i]) :
                 ResultTable.rows[i][j] # Annotation(GoodBlob)
        /\ "schema_used" \in DOMAIN ResultTable.metadata
        /\ "visual" \in DOMAIN ResultTable.metadata
        /\ ResultTable.metadata.visual = GoodBlob

----------------------------------------------------------------------------
(* C13: parsing is total *)

\* a Table whose rows all have the header length when it has headers
RepairedTable(t) ==
    HeadersTruthy(t.headers) =>
        \A i \in 1..Len(t.rows) : Len(t.rows[i]) = Len(Get(t.headers))

\* the Tables of the result of the entry point that has returned
ReturnedTables ==
    IF pc = "parsed" THEN << ResultTable >>
    ELSE IF pc = "sheet_done"
    THEN ScannedTables \o DefaultScannedTables \o ResultSheet.tables
    ELSE IF pc = "workbook_done"
    THEN LET RECURSIVE AllTables(_)
             AllTables(ss) == IF ss = << >> THEN << >>
                              ELSE Head(ss).tables \o AllTables(Tail(ss))
         IN  AllTables(ResultWorkbook.sheets)
    ELSE << >>

\* the entry point has returned: its result is there
HasResult ==
    /\ pc = "parsed" => IsSome(result)
    /\ pc = "sheet_done"
           => IsSome(tables) /\ IsSome(default_tables) /\ IsSome(parsed_sheet)
    /\ pc = "workbook_done" => IsSome(workbook)

\* C13: for every text and schema, parse_table, scan_tables, parse_sheet and
\* parse_workbook never end in an error outcome: no step of a call raises, a
\* loop never runs past the lines of the text, and a call that has returned
\* holds a structured result whose rows are padded or truncated to the header
\* length, whatever the row lengths and the content of a metadata annotation.
C13_ParsingIsTotal ==
    /\ pc # "raised"
    /\ idx <= Len(lines)
    /\ pc = "workbook_loop" => wb_pos <= Len(wb_lines) + 1
    /\ HasResult
    /\ \A i \in 1..Len(ReturnedTables) : RepairedTable(ReturnedTables[i])

\* parse_table returned a Table with headers for a text that has a row longer
\* than the headers and ends with a malformed annotation
C13_Witness ==
    /\ pc = "parsed"
    /\ IsSome(result)
    /\ HeadersTruthy(ResultTable.headers)
    /\ GivenLines[Len(GivenLines)] = Annotation(BadBlob)
    /\ \E i \in 1..Len(GivenLines) :
          /\ IsSome(parse_row(GivenLines[i], schema))
          /\ Len(Get(parse_row(GivenLines[i], schema)))
                 > Len(Get(ResultTable.headers))

----------------------------------------------------------------------------
(* validate_table: claims C14, C15, C16 *)

ValidateDone == pc = "validate_done" /\ IsSome(outcome)
ValidatedRows == Get(table).rows
ValidatedHeaderMap == HeaderMap(Get(Get(table).headers), schema_cls)

\* the conversion of cell k of row i fails
CellFails(i, k) ==
    /\ k \in MappedColumns(ValidatedRows[i], ValidatedHeaderMap)
    /\ ~convert_value(ValidatedRows[i][k],
                      FieldOf(schema_cls, Get(ValidatedHeaderMap[k])).type,
                      conversion_schema).ok

\* row i gives no value to a field that has no default
LacksRequiredField(i) ==
    \E f \in 1..Len(schema_cls) :
        /\ ~schema_cls[f].has_default
        /\ \A k \in MappedColumns(ValidatedRows[i], ValidatedHeaderMap) :
               Get(ValidatedHeaderMap[k]) # schema_cls[f].name

FailingRows ==
    { i \in 1..Len(ValidatedRows) :
        \/ \E k \in 1..Len(ValidatedRows[i]) : CellFails(i, k)
        \/ LacksRequiredField(i) }

\* the last column of row i that is mapped to field f, 0 when there is none
LastColumnOf(i, f) ==
    Max({0} \cup { k \in MappedColumns(ValidatedRows[i], ValidatedHeaderMap) :
                       Get(ValidatedHeaderMap[k]) = schema_cls[f].name })

\* C14: for a Table with headers, validate_table returns one record per row,
\* in row order, iff no row has a conversion error or lacks a required field;
\* otherwise it returns no records and raises one TableValidationError, only
\* after every row has been examined, whose errors are in row order, hold a
\* message labelled with the row for every failing row and a message
\* labelled with the column for every cell whose conversion failed.
C14_AllOrNothing ==
    /\ (pc = "validate_rows") => outcome = None
    /\ (ValidateDone /\ Truthy(Get(table).headers)) =>
         LET o == Get(outcome)
         IN  /\ row_idx = Len(ValidatedRows)
             /\ o.raised <=> FailingRows # {}
             /\ ~o.raised =>
                  /\ o.errors = << >>
                  /\ Len(o.records) = Len(ValidatedRows)
                  /\ \A i \in 1..Len(ValidatedRows) :
                       \A f \in 1..Len(schema_cls) :
                          IF LastColumnOf(i, f) = 0
                          THEN o.records[i][f] = NoneValue
                          ELSE o.records[i][f] =
                                 convert_value(
                                   ValidatedRows[i][LastColumnOf(i, f)],
                                   schema_cls[f].type, conversion_schema).value
             /\ o.raised =>
                  /\ o.records = << >>
                  /\ \A a, b \in 1..Len(o.errors) :
                       a <= b => o.errors[a].row <= o.errors[b].row
                  /\ \A a \in 1..Len(o.errors) : o.errors[a].row \in FailingRows
                  /\ \A i \in FailingRows :
                       \E a \in 1..Len(o.errors) : o.errors[a].row = i
                  /\ \A i \in 1..Len(ValidatedRows) :
                       \A k \in 1..Len(ValidatedRows[i]) :
                          CellFails(i, k) =>
                            \E a \in 1..Len(o.errors) :
                               /\ o.errors[a].row = i
                               /\ o.errors[a].column = ValidatedHeaderMap[k]

\* validate_table raised for a Table whose first row fails and whose second
\* row converts
C14_Witness ==
    /\ ValidateDone /\ Truthy(Get(table).headers)
    /\ Get(outcome).raised
    /\ Len(ValidatedRows) = 2 /\ FailingRows = {1}

\* the conversion the priority order asks for: the field-name converter of
\* the field, else the custom_converters entry of the type, else the
\* built-in coercion
PriorityConversion(value, field) ==
    IF IsSome(Lookup(conversion_schema.field_converters, field.name))
    THEN ApplyConverter(Get(Lookup(conversion_schema.field_converters,
                                   field.name)), value)
    ELSE IF IsSome(Lookup(conversion_schema.custom_converters, field.type))
    THEN ApplyConverter(Get(Lookup(conversion_schema.custom_converters,
                                   field.type)), value)
    ELSE convert_value(value, field.type,
                       ConversionSchema(conversion_schema.boolean_pairs,
                                        << >>, << >>))

\* C15: the value validate_table gives to a field is the one of the
\* field-name converter registered for the field if there is one, else of the
\* custom_converters entry for the field's type if there is one, else of the
\* built-in coercion.
C15_ConverterPriority ==
    (ValidateDone /\ Truthy(Get(table).headers) /\ ~Get(outcome).raised) =>
        \A i \in 1..Len(ValidatedRows) :
           \A f \in 1..Len(schema_cls) :
              LastColumnOf(i, f) # 0 =>
                 Get(outcome).records[i][f] =
                    PriorityConversion(ValidatedRows[i][LastColumnOf(i, f)],
                                       schema_cls[f]).value

\* the pairs of which a literal is the case-folded cell, trimmed
MatchingPairs(value, pairs) ==
    { j \in 1..Len(pairs) :
        \/ Strip(LowerStr(value)) = LowerStr(pairs[j][1])
        \/ Strip(LowerStr(value)) = LowerStr(pairs[j][2]) }

FirstMatchingPair(value, pairs) ==
    CHOOSE j \in MatchingPairs(value, pairs) :
        \A m \in MatchingPairs(value, pairs) : j <= m

\* the columns of row i mapped to a boolean field that has no custom converter
BooleanColumns(i) ==
    { k \in MappedColumns(ValidatedRows[i], ValidatedHeaderMap) :
        /\ FieldOf(schema_cls, Get(ValidatedHeaderMap[k])).type = "bool"
        /\ IsNone(Lookup(conversion_schema.custom_converters, "bool")) }

\* C16: a cell of a boolean field with no custom converter is trimmed and
\* compared, case-insensitively, with the configured pairs in order; the
\* first pair with a matching literal decides (true for its true-literal,
\* false for its false-literal); when no pair matches, validate_table raises
\* with a message that names the row, the field and the literal.  'Yes' is
\* true and '0' false under the default pairs; 'Yes' is rejected under
\* (hai, iie).
C16_BooleanCoercion ==
    /\ (ValidateDone /\ Truthy(Get(table).headers)) =>
         \A i \in 1..Len(ValidatedRows) :
            \A k \in BooleanColumns(i) :
               LET value == ValidatedRows[i][k]
                   pairs == conversion_schema.boolean_pairs
                   f == CHOOSE g \in 1..Len(schema_cls) :
                            schema_cls[g].name = Get(ValidatedHeaderMap[k])
               IN  IF MatchingPairs(value, pairs) = {}
                   THEN /\ Get(outcome).raised
                        /\ \E a \in 1..Len(Get(outcome).errors) :
                              /\ Get(outcome).errors[a].row = i
                              /\ Get(outcome).errors[a].column
                                    = ValidatedHeaderMap[k]
                              /\ Get(outcome).errors[a].literal = Some(value)
                   ELSE LET decided ==
                                BoolValue(Strip(LowerStr(value)) =
                                   LowerStr(pairs[FirstMatchingPair(value, pairs)][1]))
                        IN  /\ convert_value(value, "bool", conversion_schema)
                                  = Converted(decided)
                            /\ \A a \in 1..Len(Get(outcome).errors) :
                                  ~(/\ Get(outcome).errors[a].row = i
                                    /\ Get(outcome).errors[a].column
                                          = ValidatedHeaderMap[k]
                                    /\ Get(outcome).errors[a].literal
                                          = Some(value))
                            /\ (~Get(outcome).raised /\ LastColumnOf(i, f) = k)
                                  => Get(outcome).records[i][f] = decided
    /\ (ValidateDone /\ conversion_schema = DEFAULT_CONVERSION_SCHEMA) =>
         /\ convert_value(<< "Y", "e", "s" >>, "bool", conversion_schema)
               = Converted(BoolValue(TRUE))
         /\ convert_value(<< "0" >>, "bool", conversion_schema)
               = Converted(BoolValue(FALSE))
    /\ (ValidateDone /\ conversion_schema = HaiIieSchema) =>
         ~convert_value(<< "Y", "e", "s" >>, "bool", conversion_schema).ok

\* validate_table rejected 'Yes' under (hai, iie) in a Table where a cell
\* with spaces around it and in upper case matched
C16_Witness ==
    /\ ValidateDone /\ Truthy(Get(table).headers)
    /\ conversion_schema = HaiIieSchema
    /\ Get(outcome).raised
    /\ \E i \in 1..Len(ValidatedRows) :
          \E k \in BooleanColumns(i) :
             /\ ValidatedRows[i][k] = << "Y", "e", "s" >>
             /\ \E a \in 1..Len(Get(outcome).errors) :
                   Get(outcome).errors[a].literal = Some(<< "Y", "e", "s" >>)
    /\ \E i \in 1..Len(ValidatedRows) :
          \E k \in BooleanColumns(i) :
             /\ ValidatedRows[i][k] # Strip(LowerStr(ValidatedRows[i][k]))
             /\ MatchingPairs(ValidatedRows[i][k],
                              conversion_schema.boolean_pairs) # {}

----------------------------------------------------------------------------
(* generate_table_markdown: claim C20 *)

\* the number of characters before cell j in the cells joined by ' <sep> '
RECURSIVE CellOffset(_, _)
CellOffset(row, j) ==
    IF j <= 1 THEN 0 ELSE CellOffset(row, j - 1) + Len(row[j - 1]) + 3

\* text is the cells of row joined by ' <sep> ', wrapped in '<sep> ' and
\* ' <sep>' iff require_outer_pipes
IsRenderedRow(text, row, s) ==
    LET n == Len(row)
        body == IF s.require_outer_pipes
                THEN SubSeq(text, 3, Len(text) - 2) ELSE text
    IN  /\ s.require_outer_pipes =>
              /\ Len(text) >= 4
              /\ SubSeq(text, 1, 2) = << s.column_separator, SP >>
              /\ SubSeq(text, Len(text) - 1, Len(text))
                    = << SP, s.column_separator >>
        /\ Len(body) = IF n = 0 THEN 0 ELSE CellOffset(row, n) + Len(row[n])
        /\ \A j \in 1..n :
              SubSeq(body, CellOffset(row, j) + 1,
                     CellOffset(row, j) + Len(row[j])) = row[j]
        /\ \A j \in 1..(n - 1) :
              SubSeq(body, CellOffset(row, j) + Len(row[j]) + 1,
                     CellOffset(row, j) + Len(row[j]) + 3)
                 = << SP, s.column_separator, SP >>

\* text is a divider line for n headers: n runs of three header-separator
\* characters, joined and wrapped as a row is
IsDividerLine(text, n, s) ==
    IsRenderedRow(text,
                  [j \in 1..n |-> << s.header_separator_char,
                                     s.header_separator_char,
                                     s.header_separator_char >>], s)

Generated == pc = "generated" /\ IsSome(table)

HasNameLine ==
    /\ schema.multi /\ IsSome(schema.table_header_level)
    /\ IsSome(Get(table).name) /\ Get(Get(table).name) # << >>

HasDescription ==
    /\ schema.multi /\ schema.capture_description
    /\ IsSome(Get(table).description) /\ Get(Get(table).description) # << >>

HasHeaders ==
    IsSome(Get(table).headers) /\ Get(Get(table).headers) # << >>

----------------------------------------------------------------------------
(* generate_sheet_markdown, generate_workbook_markdown: claim C21 *)

WorkbookGenerated == pc # "generate_workbook" /\ IsSome(given_workbook)

GivenSheetsOf == Get(given_workbook).sheets

\* the lines of a text
LinesOf(text) == Split(text, NL)

RECURSIVE ConcatAll(_)
ConcatAll(seqs) ==
    IF seqs = << >> THEN << >> ELSE Head(seqs) \o ConcatAll(Tail(seqs))

BlankLine == << << >> >>

\* the lines of a sheet: the header line, one blank line, the lines of the
\* tables with one blank line between two tables
ExpectedSheetLines(sh) ==
    LinesOf(Repeat(HASH, schema.sheet_header_level) \o << SP >> \o sh.name)
    \o BlankLine
    \o ConcatAll([k \in 1..(2 * Len(sh.tables) - 1) |->
                     IF k % 2 = 1
                     THEN LinesOf(generate_table_markdown(
                                      sh.tables[(k + 1) \div 2], schema))
                     ELSE BlankLine])

\* the lines of the workbook: the root marker line and one blank line when
\* root_marker is set, the lines of the sheets with two blank lines between
\* two sheets
ExpectedWorkbookLines ==
    (IF schema.root_marker # << >>
     THEN LinesOf(schema.root_marker) \o BlankLine ELSE << >>)
    \o ConcatAll([k \in 1..(3 * Len(GivenSheetsOf) - 2) |->
                     IF k % 3 = 1
                     THEN ExpectedSheetLines(GivenSheetsOf[(k + 2) \div 3])
                     ELSE BlankLine])

----------------------------------------------------------------------------
(* parse_workbook of generate_workbook_markdown: claim C23 *)

WorkbookReparsed ==
    pc = "workbook_done" /\ IsSome(given_workbook) /\ IsSome(workbook)

\* the names of the sheets and the headers and rows of their tables
NamesHeadersRows(w) ==
    [i \in 1..Len(w.sheets) |->
        [name |-> w.sheets[i].name,
         tables |-> [j \in 1..Len(w.sheets[i].tables) |->
                        [headers |-> w.sheets[i].tables[j].headers,
                         rows |-> w.sheets[i].tables[j].rows]]]]

\* the header row and the data rows of a table
AllRows(t) == << Get(t.headers) >> \o t.rows

\* a trimmed cell free of the column separator and of line breaks
PlainCell(c) ==
    /\ c = Strip(c)
    /\ ~Contains(c, schema.column_separator)
    /\ ~Contains(c, NL)

\* the condition of the claim on a sheet: a non-empty trimmed name without
\* leading '#', tables with headers, at least one column and plain cells
ClaimedSheet(sh) ==
    /\ sh.name # << >> /\ sh.name = Strip(sh.name) /\ Head(sh.name) # HASH
    /\ \A j \in 1..Len(sh.tables) :
          /\ Truthy(sh.tables[j].headers)
          /\ \A r \in 1..Len(AllRows(sh.tables[j])) :
                \A c \in 1..Len(AllRows(sh.tables[j])[r]) :
                   PlainCell(AllRows(sh.tables[j])[r][c])

ClaimedWorkbook ==
    /\ schema.multi /\ IsNone(schema.table_header_level)
    /\ \A i \in 1..Len(GivenSheetsOf) : ClaimedSheet(GivenSheetsOf[i])

RoundTripHolds ==
    NamesHeadersRows(Get(workbook)) = NamesHeadersRows(Get(given_workbook))

\* C23: for any Workbook whose sheets have non-empty trimmed names without
\* leading '#' and whose tables have headers, at least one column and
\* trimmed cells free of the column separator and of line breaks, and any
\* MultiTableParsingSchema s with table_header_level unset,
\* parse_workbook(generate_workbook_markdown(w, s), s) has the same sheets
\* with the same names in the same order, each with the same tables with the
\* same headers and rows in the same order.
C23_WorkbookRoundTrip ==
    (WorkbookReparsed /\ ClaimedWorkbook) => RoundTripHolds

\* the conditions on the schema under which written lines are read back
PlainSchema ==
    /\ schema.strip_whitespace
    /\ schema.column_separator \notin { SP, BS, HASH, NL }
    /\ schema.header_separator_char \notin { SP, NL, schema.column_separator }
    /\ schema.sheet_header_level >= 1
    /\ schema.root_marker = Strip(schema.root_marker)
    /\ ~Contains(schema.root_marker, NL)

\* the further conditions on a sheet: a name of one line; in every table one
\* cell per header in every row and no description that is written; and,
\* without outer separators, at least two columns, no empty cell and no
\* line that starts with '#'
PlainSheet(sh) ==
    /\ ~Contains(sh.name, NL)
    /\ \A j \in 1..Len(sh.tables) :
          LET t == sh.tables[j]
          IN  /\ ~(schema.capture_description /\ Truthy(t.description))
              /\ \A r \in 1..Len(AllRows(t)) :
                    /\ Len(AllRows(t)[r]) = Len(Get(t.headers))
                    /\ ~schema.require_outer_pipes =>
                          /\ Len(AllRows(t)[r]) >= 2
                          /\ \A c \in 1..Len(AllRows(t)[r]) :
                                AllRows(t)[r][c] # << >>
                          /\ Head(AllRows(t)[r][1]) # HASH

PlainWorkbook ==
    /\ ClaimedWorkbook /\ PlainSchema
    /\ \A i \in 1..Len(GivenSheetsOf) : PlainSheet(GivenSheetsOf[i])

\* C23, amended: the round trip holds when, in addition, the schema trims
\* cells, has a sheet header level of at least 1 and a root marker that is
\* empty or one trimmed line, sheet names have no line break, every row has
\* one cell per header, no description is written, and, unless
\* require_outer_pipes is set, tables have at least two columns, no empty
\* cell and no first cell that starts with '#'.
C23_WorkbookRoundTripPlain ==
    (WorkbookReparsed /\ PlainWorkbook) => RoundTripHolds

\* a workbook of two sheets, one of them with two tables, was written without
\* outer separators under a root marker and read back
C23_Witness ==
    /\ WorkbookReparsed /\ PlainWorkbook
    /\ ~schema.require_outer_pipes /\ schema.root_marker # << >>
    /\ Len(GivenSheetsOf) = 2
    /\ \E i \in 1..2 : Len(GivenSheetsOf[i].tables) = 2
    /\ Len(Get(workbook).sheets) = 2

----------------------------------------------------------------------------
(* parse_table, line by line: claim C22 *)

\* the tokenized non-empty lines among the lines the loop has processed
SeenTokens ==
    LET keep == { i \in 1..idx : Strip(lines[i]) # << >> }
    IN  [j \in 1..Cardinality(keep) |->
            Get(parse_row(Strip(lines[Kth(keep, j)]), schema))]

\* where every line processed so far is: the header row and the separator
\* row of the commit, the data rows in document order, the buffered row
LinesAccounted ==
    LET toks == SeenTokens
        seps == SeparatorPositions(toks, schema)
        n == Len(toks)
    IN  /\ n = (IF IsSome(headers) THEN 2 ELSE 0)
               + Len(potential_header) + Len(rows)
        /\ IF seps = {}
           THEN /\ headers = None
                /\ rows \o potential_header = toks
                /\ n > 0 => potential_header = Some(toks[n])
           ELSE /\ headers = Some(toks[Min(seps) - 1])
                /\ potential_header = None
                /\ rows = DataAround(toks, Min(seps))

\* the returned rows are the data rows, as tokenized or normalized to the
\* header length, in document order
RowsReturned ==
    LET toks == Tokenized(markdown, schema)
        seps == SeparatorPositions(toks, schema)
        data == IF seps = {} THEN toks ELSE DataAround(toks, Min(seps))
    IN  /\ IsNone(ResultTable.headers) => Len(ResultTable.rows) = Len(toks)
        /\ IsSome(ResultTable.headers) =>
              Len(ResultTable.rows) = Len(toks) - 2
        /\ Len(ResultTable.rows) = Len(data)
        /\ \A i \in 1..Len(data) :
              \/ ResultTable.rows[i] = data[i]
              \/ /\ IsSome(ResultTable.headers)
                 /\ ResultTable.rows[i] =
                       NormalizeRow(data[i], Len(Get(ResultTable.headers)))

====
